---- MODULE Spec2Model ----
(***************************************************************************)
(* Conversation/session state machine of the betting transaction bot.      *)
(*                                                                         *)
(* State: the aiogram FSM context of every identity (active state and data *)
(* bag), the bot's own storage (players table, user_credentials table) in  *)
(* either backend (sqlite or memory), and the create_transaction requests  *)
(* the last handler sent to the backend.  One action per handler;          *)
(* the dispatcher (router order of bot.py and the filters of the handler   *)
(* decorators) is the operator Route.                                      *)
(*                                                                         *)
(* Texts are sequences of one-character strings, so that strip(), len()    *)
(* and the validators' regular expressions are computed on the characters. *)
(* Optional values (Python None) are None == <<>> and Some(v) == <<v>>.    *)
(* Every backend call may fail; message delivery to Telegram does not.     *)
(***************************************************************************)
EXTENDS Integers, Sequences, FiniteSets, TLC

VARIABLES
    storageMode,   \* config.STORAGE_MODE: "sqlite" or "memory"
    profile,       \* what the user does with the bot: the events they send
    fsm,           \* identity -> active FSM state (NoState when at the menu)
    bag,           \* identity -> FSM data (a dict: function from keys)
    players,       \* identity -> players row (player_uuid, language_code)
    credentials,   \* identity -> user_credentials row, or NoRow
    entered,       \* identity -> what the user entered in the flow instance
    restarts,      \* identity -> flows begun on top of unfinished data
    created,       \* create_transaction requests sent by the last handler
    tempfiles,     \* temporary copies the last handler made and left on disk
    tasks,         \* identity -> the handlers suspended at a backend call
    last,          \* the handler that handled the last event, and its outcome
    called,        \* the last handler called the backend (a method of APIClient)
    state_data,    \* the storage's state_data table: identity -> key -> value
    input,         \* the arguments of a call of a utility or storage function
    result         \* what the call returned (None before the call)

vars == <<storageMode, profile, fsm, bag, players, credentials, entered, restarts,
          created, tempfiles, tasks, last, called, state_data, input, result>>

-----------------------------------------------------------------------------
(* Optional values and dicts *)

None == <<>>
Some(v) == <<v>>
Val(o) == o[1]

EmptyBag == <<>>
Has(d, k) == k \in DOMAIN d
Get(d, k) == IF k \in DOMAIN d THEN Some(d[k]) ELSE None

-----------------------------------------------------------------------------
(* The identities (Telegram users) talking to the bot *)

Identities == {"u1"}

-----------------------------------------------------------------------------
(* Characters and texts *)

Digits == {"0", "1", "2", "3", "4", "5", "6", "7", "8", "9"}
LowerCase == {"a", "b", "c", "d", "e", "f", "g", "h", "i", "j", "k", "l", "m",
              "n", "o", "p", "q", "r", "s", "t", "u", "v", "w", "x", "y", "z"}
UpperCase == {"A", "B", "C", "D", "E", "F", "G", "H", "I", "J", "K", "L", "M",
              "N", "O", "P", "Q", "R", "S", "T", "U", "V", "W", "X", "Y", "Z"}
AlphaNum == Digits \cup LowerCase \cup UpperCase
WhiteSpace == {" ", "\t", "\n"}

RECURSIVE LStrip(_)
LStrip(s) == IF s # <<>> /\ Head(s) \in WhiteSpace THEN LStrip(Tail(s)) ELSE s

RECURSIVE RStrip(_)
RStrip(s) ==
    IF s # <<>> /\ s[Len(s)] \in WhiteSpace
    THEN RStrip(SubSeq(s, 1, Len(s) - 1))
    ELSE s

\* str.strip()
Strip(s) == RStrip(LStrip(s))

AllIn(s, chars) == \A k \in 1..Len(s) : s[k] \in chars

\* The texts of the reply-keyboard buttons and of the commands (an emoji is
\* one character, written as its code point).
T_start == <<"/", "s", "t", "a", "r", "t">>
T_menu == <<"/", "m", "e", "n", "u">>
T_logout == <<"/", "l", "o", "g", "o", "u", "t">>
T_skip == <<"/", "s", "k", "i", "p">>
L_MainMenu == <<"U+1F3E0", " ", "M", "a", "i", "n", " ", "M", "e", "n", "u">>
L_Deposit == <<"U+1F4B5", " ", "D", "e", "p", "o", "s", "i", "t">>
L_Withdraw == <<"U+1F4B8", " ", "W", "i", "t", "h", "d", "r", "a", "w">>
L_Help == <<"U+2139", "U+FE0F", " ", "H", "e", "l", "p">>
L_Logout == <<"U+1F6AA", " ", "L", "o", "g", "o", "u", "t">>

\* The reply-keyboard buttons of the admin panel.
L_AllTransactions == <<"U+1F4CB", " ", "A", "l", "l", " ", "T", "r", "a", "n", "s",
                       "a", "c", "t", "i", "o", "n", "s">>
L_Recent == <<"U+1F550", " ", "R", "e", "c", "e", "n", "t", " ", "(", "2", "4", "h", ")">>
L_ByDate == <<"U+1F4C5", " ", "B", "y", " ", "D", "a", "t", "e">>
\* the agent panel's own buttons (agent_menu.py show_agent_menu)
L_MyTransactions == <<"U+1F4CB", " ", "M", "y", " ", "T", "r", "a", "n", "s",
                      "a", "c", "t", "i", "o", "n", "s">>
L_MyStats == <<"U+1F4CA", " ", "M", "y", " ", "S", "t", "a", "t", "s">>

\* Free texts a user types.
T_date == <<"2", "0", "2", "5", "-", "1", "1", "-", "0", "8">>
T_amount == <<"1", "5", "0", ".", "5", "0">>
T_negative == <<"-", "5">>
T_nan == <<"n", "a", "n">>
T_player == <<"p", "l", "a", "y", "e", "r", "4", "2">>
T_email == <<"a", "@", "b", ".", "i", "o">>
T_phone == <<"+", "2", "5", "1", "9">>

\* The texts of a user who deposits: the menu labels, and a valid and an
\* invalid input of every free-text step.
MenuTexts == {L_MainMenu, L_Deposit, L_Withdraw, L_Help}
DepositTexts == MenuTexts \cup {L_Logout, T_skip, T_amount, T_negative, T_player}

\* The texts of a user who withdraws.
WithdrawTexts == MenuTexts \cup {T_skip, T_amount, T_player}

\* The texts of a user who logs in and out.
LoginTexts == {T_start, T_logout, L_Logout, L_Deposit, T_negative, T_player}

\* The texts of a member of staff in the admin panel: its buttons, a date and
\* a text that is neither.
AdminTexts == {L_AllTransactions, L_Recent, L_ByDate, T_date, T_negative}

\* The texts of a user who registers.
RegisterTexts == {T_start, T_skip, T_negative, T_player, T_email, T_phone}

-----------------------------------------------------------------------------
(* Validators (app/utils/validators.py) *)

\* The value of a run of decimal digits.
RECURSIVE DigitsValue(_)
DigitsValue(s) ==
    IF s = <<>> THEN 0
    ELSE 10 * DigitsValue(SubSeq(s, 1, Len(s) - 1))
         + (CHOOSE d \in 0..9 : ToString(d) = s[Len(s)])

RECURSIVE Pow10(_)
Pow10(k) == IF k = 0 THEN 1 ELSE 10 * Pow10(k - 1)

\* Python float(str) on the decimal notation [sign] digits [. digits] and on
\* "nan", "inf" and "infinity"; the number is num / 10^exp, and inf is the
\* sign of an infinity (0 for a finite number).  (No exponent notation and no
\* upper-case letters in the inputs.)
ParseFloat(str) ==
    LET s == Strip(str)
        neg == s # <<>> /\ Head(s) = "-"
        u == IF s # <<>> /\ Head(s) \in {"-", "+"} THEN Tail(s) ELSE s
        dots == {k \in 1..Len(u) : u[k] = "."}
        ip == IF dots = {} THEN u ELSE SubSeq(u, 1, (CHOOSE k \in dots : TRUE) - 1)
        fp == IF dots = {} THEN <<>>
              ELSE SubSeq(u, (CHOOSE k \in dots : TRUE) + 1, Len(u))
        mag == DigitsValue(ip \o fp)
    IN  IF u = <<"n", "a", "n">>
        THEN [ok |-> TRUE, nan |-> TRUE, inf |-> 0, num |-> 0, exp |-> 0]
        ELSE IF u \in {<<"i", "n", "f">>, <<"i", "n", "f", "i", "n", "i", "t", "y">>}
        THEN [ok |-> TRUE, nan |-> FALSE, inf |-> IF neg THEN 0 - 1 ELSE 1,
              num |-> 0, exp |-> 0]
        ELSE IF /\ Cardinality(dots) <= 1
                /\ AllIn(ip, Digits) /\ AllIn(fp, Digits)
                /\ Len(ip) + Len(fp) > 0
        THEN [ok |-> TRUE, nan |-> FALSE, inf |-> 0,
              num |-> IF neg THEN 0 - mag ELSE mag, exp |-> Len(fp)]
        ELSE [ok |-> FALSE, nan |-> FALSE, inf |-> 0, num |-> 0, exp |-> 0]

MaxAmount == 1000000

\* validate_amount: (is_valid, amount, error).  A comparison with nan is false.
validate_amount(amount_str) ==
    LET f == ParseFloat(amount_str)
        Rejected(error) == [valid |-> FALSE, amount |-> None, error |-> Some(error)]
    IN  IF ~f.ok THEN Rejected("Invalid amount format. Please enter a number.")
        ELSE IF ~f.nan /\ (f.inf < 0 \/ (f.inf = 0 /\ f.num <= 0))
        THEN Rejected("Amount must be greater than 0")
        ELSE IF ~f.nan /\ (f.inf > 0 \/ f.num > MaxAmount * Pow10(f.exp))
        THEN Rejected("Amount exceeds maximum limit")
        ELSE [valid |-> TRUE,
              amount |-> Some([nan |-> f.nan, num |-> f.num, exp |-> f.exp]),
              error |-> None]

MaxSiteIdLen == 50

\* re.match(r'^...$', s): $ matches at the end of the string and also just
\* before a newline that ends it; these are the texts the part of the
\* pattern before $ may have matched in full
BeforeDollar(s) ==
    {s} \cup (IF s # <<>> /\ s[Len(s)] = "\n" THEN {SubSeq(s, 1, Len(s) - 1)} ELSE {})

\* validate_player_site_id: (is_valid, error), ^[a-zA-Z0-9_-]+$
validate_player_site_id_result(site_id) ==
    IF site_id = <<>> \/ Strip(site_id) = <<>>
    THEN [valid |-> FALSE, error |-> Some("Player site ID cannot be empty")]
    ELSE IF Len(site_id) > MaxSiteIdLen
    THEN [valid |-> FALSE, error |-> Some("Player site ID too long (max 50 characters)")]
    ELSE IF ~ \E m \in BeforeDollar(site_id) :
                m # <<>> /\ AllIn(m, AlphaNum \cup {"_", "-"})
    THEN [valid |-> FALSE, error |-> Some("Invalid player site ID format. Use only letters, numbers, underscore, and hyphen.")]
    ELSE [valid |-> TRUE, error |-> None]

\* is_valid of validate_player_site_id
validate_player_site_id(site_id) == validate_player_site_id_result(site_id).valid

\* ^[a-zA-Z0-9._%+-]+@[a-zA-Z0-9.-]+\.[a-zA-Z]{2,}$
validate_email(email) ==
    \E m \in BeforeDollar(email) :
      \E at \in 2..Len(m) : \E dot \in (at + 2)..(Len(m) - 2) :
        /\ m[at] = "@"
        /\ AllIn(SubSeq(m, 1, at - 1), AlphaNum \cup {".", "_", "%", "+", "-"})
        /\ AllIn(SubSeq(m, at + 1, dot - 1), AlphaNum \cup {".", "-"})
        /\ m[dot] = "."
        /\ AllIn(SubSeq(m, dot + 1, Len(m)), LowerCase \cup UpperCase)

\* ^\+[1-9]\d{1,14}$
validate_phone(phone) ==
    \E m \in BeforeDollar(phone) :
        /\ Len(m) >= 3 /\ Len(m) <= 16
        /\ m[1] = "+"
        /\ m[2] \in Digits \ {"0"}
        /\ AllIn(SubSeq(m, 3, Len(m)), Digits)

-----------------------------------------------------------------------------
(* The backend catalog (external): what the catalog endpoints return *)

DepositBankIds == 1..7         \* all active: the bank list has two pages
InactiveDepositBankIds == {8}
WithdrawalBankIds == {5, 6}    \* bank 6 declares required fields
ActiveSiteIds == {3, 11, 12, 13, 14, 15, 16}

\* bank.requiredFields of a withdrawal bank: names of the required fields
RequiredFields(bank_id) ==
    IF bank_id = 6 THEN <<"account_number", "account_name">> ELSE <<>>

ItemsPerPage == 6

\* build_paginated_inline_keyboard: total_pages
TotalPages(total_items) ==
    IF total_items > 0
    THEN (total_items + ItemsPerPage - 1) \div ItemsPerPage
    ELSE 1

ADMIN_ROLE_ID == 7
AGENT_ROLE_ID == 8
PLAYER_ROLE_ID == 9

-----------------------------------------------------------------------------
(* Storage: the user_credentials and players rows of one identity         *)
(* (app/storage/memory_storage.py, app/storage/sqlite_storage.py)         *)

NoRow == None
CredRow(email, password, access_token, role) ==
    Some([email |-> email, password |-> password,
          access_token |-> access_token, role |-> role])

\* MemoryStorage.set_user_credentials: the dict of the identity is replaced
Memory_set_user_credentials(row, email, password) ==
    CredRow(Some(email), Some(password), None, None)

\* SQLiteStorage.set_user_credentials: UPDATE keeps access_token and role
SQLite_set_user_credentials(row, email, password) ==
    IF row # NoRow
    THEN Some([Val(row) EXCEPT !.email = Some(email), !.password = Some(password)])
    ELSE CredRow(Some(email), Some(password), None, None)

set_user_credentials(mode, row, email, password) ==
    IF mode = "sqlite"
    THEN SQLite_set_user_credentials(row, email, password)
    ELSE Memory_set_user_credentials(row, email, password)

\* MemoryStorage.set_admin_token: a missing dict is created empty
Memory_set_admin_token(row, access_token, role) ==
    IF row # NoRow
    THEN Some([Val(row) EXCEPT !.access_token = Some(access_token), !.role = Some(role)])
    ELSE CredRow(None, None, Some(access_token), Some(role))

\* a token written without its role
SQLite_set_admin_token_without_role(row, access_token, role) ==
    IF row # NoRow
    THEN Some([Val(row) EXCEPT !.access_token = Some(access_token)])
    ELSE CredRow(Some(<<>>), Some(<<>>), Some(access_token), None)

\* SQLiteStorage.set_admin_token: a missing row is inserted with email ""
SQLite_set_admin_token(row, access_token, role) ==
    IF row # NoRow
    THEN Some([Val(row) EXCEPT !.access_token = Some(access_token), !.role = Some(role)])
    ELSE CredRow(Some(<<>>), Some(<<>>), Some(access_token), Some(role))

set_admin_token(mode, row, access_token, role) ==
    IF mode = "sqlite"
    THEN SQLite_set_admin_token(row, access_token, role)
    ELSE Memory_set_admin_token(row, access_token, role)

\* a row blanked instead of deleted
clear_user_credentials_keeping_row(row) ==
    IF row # NoRow
    THEN Some([Val(row) EXCEPT !.email = None, !.password = None])
    ELSE NoRow

\* MemoryStorage / SQLiteStorage.clear_user_credentials: the row is deleted
clear_user_credentials(row) == NoRow

clear_admin_token(row) ==
    IF row # NoRow
    THEN Some([Val(row) EXCEPT !.access_token = None, !.role = None])
    ELSE NoRow

get_admin_token(row) == IF row # NoRow THEN Val(row).access_token ELSE None
get_user_role(row) == IF row # NoRow THEN Val(row).role ELSE None
is_user_logged_in(row) == row # NoRow

\* A players row; an identity without a row reads None for both columns.
NoPlayer == [player_uuid |-> None, language_code |-> None]

\* SQLiteStorage.set_player_uuid: INSERT OR REPLACE of (telegram_id, player_uuid)
SQLite_set_player_uuid(p, player_uuid) ==
    [player_uuid |-> Some(player_uuid), language_code |-> None]

Memory_set_player_uuid(p, player_uuid) ==
    [p EXCEPT !.player_uuid = Some(player_uuid)]

set_player_uuid(mode, p, player_uuid) ==
    IF mode = "sqlite"
    THEN SQLite_set_player_uuid(p, player_uuid)
    ELSE Memory_set_player_uuid(p, player_uuid)

\* SQLiteStorage.set_language inserts a row with a placeholder uuid when the
\* identity has none; MemoryStorage.set_language only sets the key.
set_language(mode, p, language_code) ==
    IF mode = "sqlite" /\ p.player_uuid = None
    THEN [player_uuid |-> Some("placeholder"), language_code |-> Some(language_code)]
    ELSE [p EXCEPT !.language_code = Some(language_code)]

-----------------------------------------------------------------------------
(* FSM states (the StatesGroup classes) *)

NoState == "None"
Dep_selecting_bank == "DepositStates:selecting_bank"
Dep_entering_amount == "DepositStates:entering_amount"
Dep_selecting_betting_site == "DepositStates:selecting_betting_site"
Dep_entering_player_site_id == "DepositStates:entering_player_site_id"
Dep_uploading_screenshot == "DepositStates:uploading_screenshot"
Dep_confirming == "DepositStates:confirming"
DepositStates == {Dep_selecting_bank, Dep_entering_amount, Dep_selecting_betting_site,
                  Dep_entering_player_site_id, Dep_uploading_screenshot, Dep_confirming}

Wd_selecting_bank == "WithdrawStates:selecting_bank"
Wd_entering_required_fields == "WithdrawStates:entering_required_fields"
Wd_entering_amount == "WithdrawStates:entering_amount"
Wd_selecting_betting_site == "WithdrawStates:selecting_betting_site"
Wd_entering_player_site_id == "WithdrawStates:entering_player_site_id"
Wd_uploading_screenshot == "WithdrawStates:uploading_screenshot"
Wd_confirming == "WithdrawStates:confirming"
WithdrawStates == {Wd_selecting_bank, Wd_entering_required_fields, Wd_entering_amount,
                   Wd_selecting_betting_site, Wd_entering_player_site_id,
                   Wd_uploading_screenshot, Wd_confirming}

Login_waiting_for_username == "LoginStates:waiting_for_username"
Login_waiting_for_password == "LoginStates:waiting_for_password"
LoginStates == {Login_waiting_for_username, Login_waiting_for_password}

Reg_waiting_for_email == "RegistrationStates:waiting_for_email"
Reg_waiting_for_password == "RegistrationStates:waiting_for_password"
Reg_waiting_for_display_name == "RegistrationStates:waiting_for_display_name"
Reg_waiting_for_phone == "RegistrationStates:waiting_for_phone"
RegistrationStates == {Reg_waiting_for_email, Reg_waiting_for_password,
                       Reg_waiting_for_display_name, Reg_waiting_for_phone}

Adm_entering_date == "AdminTransactionStates:entering_date"
Adm_assigning_agent == "AdminTransactionStates:assigning_agent"
Adm_updating_status == "AdminTransactionStates:updating_status"
AdminTransactionStates == {"AdminTransactionStates:selecting_filter",
                           Adm_entering_date,
                           "AdminTransactionStates:selecting_transaction",
                           Adm_assigning_agent,
                           Adm_updating_status}

-----------------------------------------------------------------------------
(* Inbound events.  A callback's data is path[1]:...:path[n][:n]; the      *)
(* callbacks are the buttons the bot renders from the catalog above, plus  *)
(* auth:register and admin:logout, whose handlers are registered.          *)

NoArg == 0 - 1

TextEvent(t) == [kind |-> "text", text |-> t, path |-> <<>>, n |-> NoArg]
Callback(path, n) == [kind |-> "callback", text |-> <<>>, path |-> path, n |-> n]
PhotoEvent == [kind |-> "photo", text |-> <<>>, path |-> <<>>, n |-> NoArg]
\* a shared contact; n = 1 when contact.user_id is the sender's id
ContactEvent(own) == [kind |-> "contact", text |-> <<>>, path |-> <<>>,
                      n |-> IF own THEN 1 ELSE 0]

Languages == {"en", "am"}
QuickAmounts == {50}           \* of build_amount_quick_replies: 50 ... 1000
TappedDepositBanks == {7}
TappedSites == {3}

\* the buttons of the start and login messages, and the admin logout button
LoginCallbacks ==
    {Callback(<<"lang", l>>, NoArg) : l \in Languages}
    \cup {Callback(<<"auth", a>>, NoArg) :
            a \in {"guest", "telegram", "login", "login_switch", "cancel"}}
    \cup {Callback(<<"admin", "logout">>, NoArg)}

RegisterCallbacks == {Callback(<<"auth", "register">>, NoArg)}

\* the buttons of every flow message
CommonCallbacks ==
    {Callback(<<"back", "main">>, NoArg), Callback(<<"cancel">>, NoArg),
     Callback(<<"amount", "custom">>, NoArg),
     Callback(<<"confirm", "yes">>, NoArg), Callback(<<"confirm", "no">>, NoArg)}

\* the buttons of the Deposit messages; the lists show their first page
DepositCallbacks ==
    CommonCallbacks
    \cup {Callback(<<"bank", "deposit">>, b) : b \in TappedDepositBanks}
    \cup {Callback(<<"bank", "deposit", "page">>, pg) :
            pg \in 2..TotalPages(Cardinality(DepositBankIds))}
    \cup {Callback(<<"amount">>, a) : a \in QuickAmounts}
    \cup {Callback(<<"site">>, st) : st \in TappedSites}
    \cup {Callback(<<"site", "page">>, pg) :
            pg \in 2..TotalPages(Cardinality(ActiveSiteIds))}

\* the buttons of the Withdraw messages
WithdrawCallbacks ==
    CommonCallbacks
    \cup {Callback(<<"bank", "withdraw">>, b) : b \in WithdrawalBankIds}
    \cup {Callback(<<"site", "withdraw">>, st) : st \in TappedSites}

\* The transactions and agents the backend knows, and the ones whose buttons
\* the admin taps.
TxIds == {101, 102}
AgentIds == {5}
TappedTx == {101}
TappedStatuses == {"SUCCESS"}    \* of PENDING, IN_PROGRESS, SUCCESS, FAILED, CANCELLED

\* f"{n}" and int(s) for the numbers of the callback data
Str(n) == CASE n = 101 -> "101" [] n = 102 -> "102" [] n = 5 -> "5"
int(str) == CHOOSE n \in TxIds \cup AgentIds : Str(n) = str

\* the buttons of the admin panel's lists, detail views and prompts, and the
\* By Date button of its inline menu (request_date)
AdminCallbacks ==
    {Callback(<<"admin", "tx">>, t) : t \in TxIds}
    \cup {Callback(<<"admin", "transactions", "date">>, NoArg)}
    \cup {Callback(<<"admin", "status">>, t) : t \in TappedTx}
    \cup {Callback(<<"admin", "set_status", Str(t), st>>, NoArg) :
            t \in TappedTx, st \in TappedStatuses}
    \cup {Callback(<<"admin", "assign">>, t) : t \in TappedTx}
    \cup {Callback(<<"admin", "assign_agent", Str(t)>>, a) :
            t \in TappedTx, a \in AgentIds}
    \cup {Callback(<<"admin", "back">>, NoArg)}

\* A patient user sends the next update when the bot has answered the last
\* one; a hasty user also sends updates while a handler awaits the backend.
Profiles == {"deposit", "withdraw", "login", "register", "admin",
             "hasty_deposit", "hasty_admin", "stray_withdraw", "hasty_guest",
             "agent"}
Hasty(pr) == pr \in {"hasty_deposit", "hasty_admin", "hasty_guest"}

DepositEvents ==
    {TextEvent(t) : t \in DepositTexts} \cup DepositCallbacks \cup {PhotoEvent}
WithdrawEvents ==
    {TextEvent(t) : t \in WithdrawTexts} \cup WithdrawCallbacks \cup {PhotoEvent}
LoginEvents ==
    {TextEvent(t) : t \in LoginTexts} \cup LoginCallbacks
    \cup {ContactEvent(TRUE), ContactEvent(FALSE)}
RegisterEvents ==
    {TextEvent(t) : t \in RegisterTexts} \cup RegisterCallbacks
\* a member of staff logs in by sharing the contact, then works the panel
AdminEvents ==
    {TextEvent(t) : t \in AdminTexts} \cup AdminCallbacks \cup {ContactEvent(TRUE)}

\* a hasty user deposits: the shortest way to the summary, and yes
HastyDepositEvents ==
    {TextEvent(t) : t \in {L_Deposit, T_player}}
    \cup {Callback(<<"bank", "deposit">>, b) : b \in TappedDepositBanks}
    \cup {Callback(<<"amount">>, a) : a \in QuickAmounts}
    \cup {Callback(<<"site">>, st) : st \in TappedSites}
    \cup {Callback(<<"confirm", "yes">>, NoArg), PhotoEvent}
\* a user withdraws and looks around: turns the page of the site list, and
\* types nan where the amount is asked for
StrayWithdrawEvents ==
    {TextEvent(t) : t \in {L_Withdraw, T_nan, T_player, T_skip}}
    \cup {Callback(<<"bank", "withdraw">>, b) : b \in {5}}
    \cup {Callback(<<"site", "withdraw">>, st) : st \in TappedSites}
    \cup {Callback(<<"site", "withdraw", "page">>, pg) :
            pg \in 2..TotalPages(Cardinality(ActiveSiteIds))}
    \cup {Callback(<<"confirm", "yes">>, NoArg)}
\* a hasty newcomer taps Deposit or Withdraw and shares the contact before the
\* bank list is there
HastyGuestEvents ==
    {TextEvent(t) : t \in {L_Deposit, L_Withdraw}} \cup {ContactEvent(TRUE)}
\* an agent logs in by sharing the contact and taps the buttons of the panel
AgentEvents ==
    {TextEvent(t) : t \in {L_MyTransactions, L_MyStats, L_ByDate, T_date}}
    \cup {ContactEvent(TRUE)}
\* a hasty member of staff taps through the transactions of old lists
HastyAdminEvents ==
    {Callback(<<"admin", "tx">>, t) : t \in TxIds}
    \cup {Callback(<<"admin", "back">>, NoArg), ContactEvent(TRUE)}

Events == DepositEvents \cup WithdrawEvents \cup LoginEvents \cup RegisterEvents
          \cup AdminEvents \cup HastyDepositEvents \cup HastyAdminEvents
          \cup StrayWithdrawEvents \cup HastyGuestEvents \cup AgentEvents

\* the events of a user of profile pr
EventsOf(pr) ==
    CASE pr = "deposit" -> DepositEvents
      [] pr = "withdraw" -> WithdrawEvents
      [] pr = "login" -> LoginEvents
      [] pr = "register" -> RegisterEvents
      [] pr = "admin" -> AdminEvents
      [] pr = "hasty_deposit" -> HastyDepositEvents
      [] pr = "hasty_admin" -> HastyAdminEvents
      [] pr = "stray_withdraw" -> StrayWithdrawEvents
      [] pr = "hasty_guest" -> HastyGuestEvents
      [] pr = "agent" -> AgentEvents

\* a user of profile pr sends the event ev, at any time and in any order
Sends(pr, ev) == ev \in EventsOf(pr)

\* F.data == "a:b"
DataIs(ev, path) == ev.kind = "callback" /\ ev.path = path /\ ev.n = NoArg

\* F.data.startswith("a:b:")
DataStartsWith(ev, pfx) ==
    /\ ev.kind = "callback"
    /\ Len(ev.path) >= Len(pfx)
    /\ SubSeq(ev.path, 1, Len(pfx)) = pfx
    /\ (Len(ev.path) > Len(pfx) \/ ev.n # NoArg)

\* F.text == t
TextIs(ev, t) == ev.kind = "text" /\ ev.text = t

-----------------------------------------------------------------------------
(* The dispatcher: the first handler, in the order the routers are         *)
(* included (bot.py setup_handlers) and the handlers are registered in     *)
(* each router, whose filters match the event.  Handlers shadowed by an    *)
(* earlier one for every event (skip_phone, handle_cancel) never run.      *)

\* RoleFilter(include=...): the stored role is one of the included ones
RoleFilter(role, include) == role # None /\ Val(role) \in include

RouteMessage(st, role, ev) ==
    \* start.router
    IF TextIs(ev, T_start) THEN "cmd_start"
    ELSE IF ev.kind = "contact" THEN "process_contact"
    ELSE IF st = Login_waiting_for_username /\ ev.kind = "text" THEN "process_login_username"
    ELSE IF st = Login_waiting_for_password /\ ev.kind = "text" THEN "process_login_password"
    ELSE IF st = Reg_waiting_for_email /\ ev.kind = "text" THEN "process_email"
    ELSE IF st = Reg_waiting_for_password /\ ev.kind = "text" THEN "process_password"
    ELSE IF st = Reg_waiting_for_display_name /\ ev.kind = "text" THEN "process_display_name"
    ELSE IF st = Reg_waiting_for_phone /\ ev.kind = "text" THEN "process_phone"
    \* main_menu.router
    ELSE IF TextIs(ev, L_MainMenu) \/ TextIs(ev, T_menu) THEN "cmd_main_menu"
    ELSE IF TextIs(ev, L_Deposit) THEN "cmd_deposit"
    ELSE IF TextIs(ev, L_Withdraw) THEN "cmd_withdraw"
    ELSE IF TextIs(ev, L_Help) THEN "cmd_help"
    ELSE IF TextIs(ev, L_Logout) \/ TextIs(ev, T_logout) THEN "cmd_logout"
    \* deposit_flow.router
    ELSE IF st = Dep_entering_amount /\ ev.kind = "text" THEN "process_amount"
    ELSE IF st = Dep_entering_player_site_id /\ ev.kind = "text" THEN "process_player_site_id"
    ELSE IF st = Dep_uploading_screenshot /\ ev.kind = "photo" THEN "process_screenshot"
    ELSE IF st = Dep_uploading_screenshot /\ ev.kind = "text" THEN "handle_screenshot_text"
    \* withdraw_flow.router
    ELSE IF st = Wd_entering_required_fields /\ ev.kind = "text" THEN "process_required_field"
    ELSE IF st = Wd_entering_amount /\ ev.kind = "text" THEN "process_withdraw_amount"
    ELSE IF st = Wd_entering_player_site_id /\ ev.kind = "text"
         THEN "process_withdraw_player_site_id"
    ELSE IF st = Wd_uploading_screenshot /\ ev.kind = "photo" THEN "process_withdraw_screenshot"
    ELSE IF st = Wd_uploading_screenshot /\ TextIs(ev, T_skip) THEN "skip_withdraw_screenshot"
    \* admin_menu.router
    ELSE IF RoleFilter(role, {"admin"}) /\ ev.kind = "text"
            /\ st \notin AdminTransactionStates
         THEN "handle_admin_menu_buttons"
    ELSE IF st = Adm_entering_date /\ ev.kind = "text" THEN "show_transactions_by_date"
    ELSE "unhandled"

RouteCallback(st, role, ev) ==
    \* start.router
    IF DataStartsWith(ev, <<"lang">>) THEN "select_language"
    ELSE IF DataIs(ev, <<"auth", "guest">>) THEN "continue_as_guest"
    ELSE IF DataIs(ev, <<"auth", "telegram">>) THEN "start_telegram_login"
    ELSE IF DataIs(ev, <<"auth", "login">>) THEN "start_login"
    ELSE IF DataIs(ev, <<"auth", "login_switch">>) THEN "switch_login_account"
    ELSE IF DataIs(ev, <<"auth", "cancel">>) THEN "cancel_login_switch"
    ELSE IF DataIs(ev, <<"auth", "register">>) THEN "start_registration"
    \* main_menu.router
    ELSE IF DataIs(ev, <<"back", "main">>) THEN "cmd_main_menu"
    \* deposit_flow.router
    ELSE IF DataStartsWith(ev, <<"bank", "deposit">>) /\ st = Dep_selecting_bank
         THEN "select_deposit_bank"
    ELSE IF DataStartsWith(ev, <<"amount">>) /\ st = Dep_entering_amount THEN "select_amount"
    ELSE IF DataStartsWith(ev, <<"site">>) /\ st = Dep_selecting_betting_site
         THEN "select_betting_site"
    ELSE IF DataIs(ev, <<"confirm", "yes">>) /\ st = Dep_confirming THEN "confirm_deposit"
    ELSE IF DataIs(ev, <<"confirm", "no">>) /\ st = Dep_confirming THEN "cancel_deposit"
    ELSE IF DataIs(ev, <<"cancel">>) THEN "cancel_flow"
    \* withdraw_flow.router
    ELSE IF DataStartsWith(ev, <<"bank", "withdraw">>) /\ st = Wd_selecting_bank
         THEN "select_withdraw_bank"
    ELSE IF DataStartsWith(ev, <<"amount">>) /\ st = Wd_entering_amount
         THEN "select_withdraw_amount"
    ELSE IF DataStartsWith(ev, <<"site", "withdraw">>) /\ st = Wd_selecting_betting_site
         THEN "select_withdraw_betting_site"
    ELSE IF DataIs(ev, <<"confirm", "yes">>) /\ st = Wd_confirming THEN "confirm_withdraw"
    ELSE IF DataIs(ev, <<"confirm", "no">>) /\ st = Wd_confirming THEN "cancel_withdraw"
    \* inline_lists.router
    ELSE IF DataStartsWith(ev, <<"bank", "deposit", "page">>) THEN "paginate_deposit_banks"
    ELSE IF DataStartsWith(ev, <<"bank", "withdraw", "page">>) THEN "paginate_withdraw_banks"
    ELSE IF DataStartsWith(ev, <<"site", "page">>) THEN "paginate_betting_sites"
    ELSE IF DataStartsWith(ev, <<"site", "withdraw", "page">>)
         THEN "paginate_withdraw_betting_sites"
    \* admin_menu.router
    ELSE IF DataIs(ev, <<"admin", "logout">>) THEN "admin_logout"
    ELSE IF DataIs(ev, <<"admin", "transactions", "date">>) THEN "request_date"
    ELSE IF DataStartsWith(ev, <<"admin", "tx">>) THEN "show_transaction_details"
    ELSE IF DataStartsWith(ev, <<"admin", "assign">>) THEN "assign_agent_start"
    ELSE IF DataStartsWith(ev, <<"admin", "assign_agent">>) THEN "assign_agent_confirm"
    ELSE IF DataStartsWith(ev, <<"admin", "status">>) THEN "update_status_start"
    ELSE IF DataStartsWith(ev, <<"admin", "set_status">>) THEN "update_status_confirm"
    ELSE IF DataIs(ev, <<"admin", "back">>) THEN "back_to_admin_menu"
    ELSE "unhandled"

Route(st, role, ev) ==
    IF ev.kind = "callback" THEN RouteCallback(st, role, ev) ELSE RouteMessage(st, role, ev)

\* Handlers that change neither the FSM context nor the storage.
StatelessHandlers == {"start_telegram_login", "cmd_help", "paginate_deposit_banks",
                      "paginate_withdraw_banks", "paginate_betting_sites",
                      "paginate_withdraw_betting_sites"}

-----------------------------------------------------------------------------
(* FSMContext operations and the frame of a handler *)

\* state.set_state(s)
SetState(i, s) == fsm' = [fsm EXCEPT ![i] = s]

\* state.update_data(**u): the keys of u are overwritten, the others kept
UpdateData(i, u) == bag' = [bag EXCEPT ![i] = u @@ bag[i]]

\* state.clear(): the state and the data
Clear(i) ==
    /\ fsm' = [fsm EXCEPT ![i] = NoState]
    /\ bag' = [bag EXCEPT ![i] = EmptyBag]
    /\ entered' = [entered EXCEPT ![i] = <<>>]
    /\ restarts' = [restarts EXCEPT ![i] = 0]

KeepContext == UNCHANGED <<fsm, bag, entered, restarts>>

\* A flow begins in a context that is not cleared first: the data of the
\* unfinished flow stays in the bag.  The model follows at most MaxRestarts
\* such beginnings in a row.
MaxRestarts == 1

Begin(i) ==
    /\ entered' = [entered EXCEPT ![i] = <<>>]
    /\ IF bag[i] = EmptyBag
       THEN UNCHANGED restarts
       ELSE /\ restarts[i] < MaxRestarts
            /\ restarts' = [restarts EXCEPT ![i] = @ + 1]
KeepStorage == UNCHANGED <<players, credentials>>
\* no create_transaction request, and no screenshot downloaded for one
NoRequest == created' = <<>> /\ tempfiles' = {}

\* The outcomes a handler reaches without a call of the backend; before every
\* other outcome it calls a method of APIClient, be it only get_template
\* through TextTemplates.get_template.  (The handlers of withdraw_flow.py and
\* the registration steps of start.py use no template.)
OutcomesWithoutCall ==
    {<<"process_contact", "invalid">>, <<"cancel_login_switch", "ok">>,
     <<"start_registration", "ok">>,
     <<"process_email", "ok">>, <<"process_email", "invalid">>,
     <<"process_password", "ok">>, <<"process_password", "invalid">>,
     <<"process_display_name", "ok">>, <<"process_display_name", "invalid">>,
     <<"process_phone", "invalid">>,
     <<"cmd_logout", "not_logged_in">>, <<"unhandled", "dropped">>,
     <<"select_deposit_bank", "error">>, <<"select_betting_site", "error">>,
     <<"cancel_deposit", "ok">>, <<"cancel_flow", "ok">>,
     <<"confirm_deposit", "duplicate">>, <<"confirm_withdraw", "duplicate">>,
     <<"select_withdraw_bank", "error">>,
     <<"process_required_field", "ok">>, <<"process_required_field", "invalid">>,
     <<"select_withdraw_amount", "custom">>, <<"select_withdraw_amount", "invalid">>,
     <<"process_withdraw_amount", "invalid">>,
     <<"select_withdraw_betting_site", "ok">>, <<"select_withdraw_betting_site", "error">>,
     <<"process_withdraw_player_site_id", "ok">>,
     <<"process_withdraw_player_site_id", "invalid">>,
     <<"process_withdraw_screenshot", "ok">>, <<"skip_withdraw_screenshot", "ok">>,
     <<"cancel_withdraw", "ok">>,
     <<"show_transactions_by_date", "session_expired">>,
     <<"show_transaction_details", "session_expired">>,
     <<"show_transaction_details", "cached">>,
     <<"assign_agent_start", "session_expired">>,
     <<"assign_agent_confirm", "session_expired">>,
     <<"update_status_start", "ok">>,
     <<"update_status_confirm", "session_expired">>}

\* the handler h of an event of identity i called the backend before it came
\* to the outcome out
BackendCalled(i, h, out, arg) ==
    CASE h = "cmd_main_menu" ->                 \* show_admin_menu, show_agent_menu
            get_user_role(credentials[i]) \in {Some("admin"), Some("agent")}
      [] h = "process_phone" /\ out = "backend_error" ->      \* not after a KeyError
            {"username", "email", "password", "display_name"} \subseteq DOMAIN bag[i]
      [] h \in {"confirm_deposit", "confirm_withdraw"}
            /\ out \in {"download_failed", "error"} ->         \* POST /players only
            players[i].player_uuid = None
      [] h = "resume" ->               \* after the call: confirm_deposit's templates
            out = "ok" /\ arg = Some("confirm_deposit")
      [] OTHER -> <<h, out>> \notin OutcomesWithoutCall

\* the handler h handled the event of identity i with outcome out
FinishedCalling(i, h, out, arg, c) ==
    /\ last' = [id |-> i, h |-> h, out |-> out, arg |-> arg]
    /\ called' = c
    /\ UNCHANGED <<storageMode, profile, state_data, input, result>>

Finished(i, h, out, arg) ==
    FinishedCalling(i, h, out, arg, BackendCalled(i, h, out, arg))

\* ... in one piece: it suspended no handler and resumed none
Done(i, h, out, arg) ==
    /\ Finished(i, h, out, arg)
    /\ UNCHANGED tasks

DoneCalling(i, h, out, arg, c) ==
    /\ FinishedCalling(i, h, out, arg, c)
    /\ UNCHANGED tasks

\* Polling starts a task for every update (Dispatcher.start_polling, no
\* events isolation): a handler that awaits the backend is suspended, and the
\* handlers of later updates run meanwhile.  The model follows at most
\* MaxTasks suspended handlers of an identity.
MaxTasks == 2

Suspend(i, task) ==
    /\ Hasty(profile)
    /\ Len(tasks[i]) < MaxTasks
    /\ tasks' = [tasks EXCEPT ![i] = Append(@, task)]

\* the k-th suspended handler of i is resumed: its backend call answered
Resume(i, k) ==
    tasks' = [tasks EXCEPT ![i] = SubSeq(@, 1, k - 1) \o SubSeq(@, k + 1, Len(@))]

\* the dispatcher hands the event to handler h: every action starts with the
\* filters of its handler's decorator, Handles adds that no handler registered
\* before it took the event
Handles(i, ev, h) ==
    /\ Sends(profile, ev)
    /\ Route(fsm[i], get_user_role(credentials[i]), ev) = h

\* a handler branch that answers and returns without touching anything
Return(i, h, out) ==
    /\ KeepContext /\ KeepStorage /\ NoRequest
    /\ Done(i, h, out, None)

-----------------------------------------------------------------------------
(* Backend answers *)

Tokens == {"tok1", "tok2"}

\* POST /auth/login and /auth/telegram-login: user.id present or not,
\* user.role, user.roleId, accessToken
\* (an account's role name and role id; the last one has the id alone)
Accounts == {<<"admin", ADMIN_ROLE_ID>>, <<"agent", AGENT_ROLE_ID>>,
             <<"player", PLAYER_ROLE_ID>>, <<"", AGENT_ROLE_ID>>}

LoginResponses ==
    {[user_id |-> TRUE, role |-> a[1], roleId |-> a[2], accessToken |-> t] :
        a \in Accounts, t \in {None} \cup {Some(tok) : tok \in Tokens}}
    \cup {[user_id |-> FALSE, role |-> "player", roleId |-> PLAYER_ROLE_ID,
           accessToken |-> None]}

is_admin(resp) == resp.role = "admin" \/ resp.roleId = ADMIN_ROLE_ID
is_agent(resp) == resp.role = "agent" \/ resp.roleId = AGENT_ROLE_ID

GuestPlayerUuid == "pl-guest"     \* of POST /players
UserPlayerUuid == "pl-user"       \* of GET /players/user/{id}
RegisteredPlayerUuid == "pl-reg"  \* of POST /players/register

get_language(p) == p.language_code

\* a service that asks the backend for a new guest account at every call
get_or_create_guest_player_anew(mode, p, language_code) ==
    set_language(mode, set_player_uuid(mode, p, GuestPlayerUuid), language_code)

\* PlayerService.get_or_create_guest_player, the backend having answered
get_or_create_guest_player(mode, p, language_code) ==
    IF p.player_uuid # None THEN p
    ELSE set_language(mode, set_player_uuid(mode, p, GuestPlayerUuid), language_code)

\* PlayerService.register_player, the backend having answered
register_player(mode, p, language_code) ==
    set_language(mode, set_player_uuid(mode, p, RegisteredPlayerUuid), language_code)

LanguageOr(p, default) ==
    IF get_language(p) # None THEN Val(get_language(p)) ELSE default

-----------------------------------------------------------------------------
(* The state after construction: empty storage, no conversation *)

Init ==
    /\ storageMode \in {"sqlite", "memory"}
    /\ profile \in Profiles
    /\ fsm = [i \in Identities |-> NoState]
    /\ bag = [i \in Identities |-> EmptyBag]
    /\ players = [i \in Identities |-> NoPlayer]
    /\ credentials = [i \in Identities |-> NoRow]
    /\ entered = [i \in Identities |-> <<>>]
    /\ restarts = [i \in Identities |-> 0]
    /\ created = <<>>
    /\ tempfiles = {}
    /\ tasks = [i \in Identities |-> <<>>]
    /\ last = [id |-> "", h |-> "", out |-> "", arg |-> None]
    /\ called = FALSE
    /\ state_data = <<>>
    /\ input = None
    /\ result = None

-----------------------------------------------------------------------------
(* handlers/start.py *)

cmd_start(i, ev) ==
    /\ TextIs(ev, T_start)
    /\ Handles(i, ev, "cmd_start")
    /\ Clear(i)
    /\ KeepStorage /\ NoRequest
    /\ \E ok \in BOOLEAN :
         Done(i, "cmd_start", IF ok THEN "ok" ELSE "backend_error", None)

select_language(i, ev) ==
    /\ DataStartsWith(ev, <<"lang">>)
    /\ Handles(i, ev, "select_language")
    /\ KeepContext /\ NoRequest
    /\ UNCHANGED credentials
    /\ \/ /\ players' = [players EXCEPT
                           ![i] = get_or_create_guest_player(storageMode, @, ev.path[2])]
          /\ Done(i, "select_language", "ok", None)
       \/ /\ players[i].player_uuid = None      \* POST /players failed
          /\ UNCHANGED players
          /\ Done(i, "select_language", "backend_error", None)

continue_as_guest(i, ev) ==
    /\ DataIs(ev, <<"auth", "guest">>)
    /\ Handles(i, ev, "continue_as_guest")
    /\ NoRequest
    /\ UNCHANGED credentials
    /\ \/ /\ players' = [players EXCEPT
                           ![i] = get_or_create_guest_player(storageMode, @,
                                                             LanguageOr(@, "en"))]
          /\ Clear(i)                           \* show_main_menu
          /\ Done(i, "continue_as_guest", "ok", None)
       \/ /\ players[i].player_uuid = None
          /\ UNCHANGED players
          /\ KeepContext
          /\ Done(i, "continue_as_guest", "backend_error", None)

dummy_password == <<"TELEGRAM_LOGIN_SECURE">>
ContactUsername == T_email

\* The storage writes of a login that the backend answered with resp.
StoreStaff(mode, row, resp, role, username, password) ==
    set_user_credentials(mode,
        IF resp.accessToken # None
        THEN set_admin_token(mode, row, Val(resp.accessToken), role)
        ELSE row,
        username, password)

process_contact(i, ev) ==
    /\ ev.kind = "contact"
    /\ Handles(i, ev, "process_contact")
    /\ NoRequest
    /\ IF ev.n # 1
       THEN KeepContext /\ KeepStorage /\ Done(i, "process_contact", "invalid", None)
       ELSE
       \/ KeepContext /\ KeepStorage
          /\ Done(i, "process_contact", "backend_error", None)
       \/ \E resp \in LoginResponses :
            IF ~resp.user_id
            THEN KeepContext /\ KeepStorage
                 /\ Done(i, "process_contact", "no_user_id", None)
            ELSE IF is_admin(resp) \/ is_agent(resp)
            THEN /\ credentials' = [credentials EXCEPT ![i] =
                        StoreStaff(storageMode, @, resp,
                                   IF is_admin(resp) THEN "admin" ELSE "agent",
                                   ContactUsername, dummy_password)]
                 /\ UNCHANGED players
                 /\ Clear(i)                    \* show_admin_menu / show_agent_menu
                 /\ Done(i, "process_contact",
                         IF is_admin(resp) THEN "admin" ELSE "agent", resp.accessToken)
            ELSE \/ /\ players' = [players EXCEPT
                                     ![i] = set_player_uuid(storageMode, @, UserPlayerUuid)]
                    /\ credentials' = [credentials EXCEPT ![i] =
                           set_user_credentials(storageMode, @, ContactUsername,
                                                dummy_password)]
                    /\ Clear(i)                 \* show_main_menu
                    /\ Done(i, "process_contact", "player", resp.accessToken)
                 \/ /\ KeepContext /\ KeepStorage   \* GET /players/user/{id} failed
                    /\ Done(i, "process_contact", "backend_error", None)

start_login(i, ev) ==
    /\ DataIs(ev, <<"auth", "login">>)
    /\ Handles(i, ev, "start_login")
    /\ KeepStorage /\ NoRequest
    /\ UNCHANGED bag
    /\ IF is_user_logged_in(credentials[i])
       THEN UNCHANGED <<fsm, entered, restarts>>
            /\ Done(i, "start_login", "already_logged_in", None)
       ELSE /\ SetState(i, Login_waiting_for_username)
            /\ Begin(i)
            /\ Done(i, "start_login", "ok", None)

process_login_username(i, ev) ==
    /\ fsm[i] = Login_waiting_for_username /\ ev.kind = "text"
    /\ Handles(i, ev, "process_login_username")
    /\ LET username == Strip(ev.text)
       IN  IF Len(username) < 3
           THEN Return(i, "process_login_username", "invalid")
           ELSE /\ UpdateData(i, [username |-> username])
                /\ SetState(i, Login_waiting_for_password)
                /\ UNCHANGED <<entered, restarts>>
                /\ KeepStorage /\ NoRequest
                /\ Done(i, "process_login_username", "ok", None)

\* a login that failed without the state having been cleared before
LoginFailed_keeping_state(i) ==
    /\ KeepContext /\ KeepStorage
    /\ Done(i, "process_login_password", "backend_error", None)

\* the except branch of process_login_password: the error is told, the state
\* is cleared and the user is sent back to /start
LoginFailed(i) ==
    /\ Clear(i) /\ KeepStorage
    /\ Done(i, "process_login_password", "backend_error", None)

\* process_login_password after POST /auth/login answered with resp
complete_login(i, resp, username, password) ==
    IF ~resp.user_id
    THEN Clear(i) /\ KeepStorage
         /\ Done(i, "process_login_password", "no_user_id", None)
    ELSE IF is_admin(resp) \/ is_agent(resp)
    THEN /\ credentials' = [credentials EXCEPT ![i] =
                StoreStaff(storageMode, @, resp,
                           IF is_admin(resp) THEN "admin" ELSE "agent",
                           username, password)]
         /\ UNCHANGED players
         /\ Clear(i)
         /\ Done(i, "process_login_password",
                 IF is_admin(resp) THEN "admin" ELSE "agent", resp.accessToken)
    ELSE \/ /\ players' = [players EXCEPT ![i] =
                   LET p == set_player_uuid(storageMode, @, UserPlayerUuid)
                   IN  set_language(storageMode, p, LanguageOr(p, "en"))]
            /\ credentials' = [credentials EXCEPT ![i] =
                   set_user_credentials(storageMode, @, username, password)]
            /\ Clear(i)
            /\ Done(i, "process_login_password", "player", resp.accessToken)
         \* GET /players/user/{id} failed: continue as guest
         \/ /\ players' = [players EXCEPT
                             ![i] = get_or_create_guest_player(storageMode, @, "en")]
            /\ UNCHANGED credentials
            /\ Clear(i)
            /\ Done(i, "process_login_password", "profile_not_found", None)
         \* ... and POST /players failed as well
         \/ /\ players[i].player_uuid = None
            /\ LoginFailed(i)

process_login_password(i, ev) ==
    /\ fsm[i] = Login_waiting_for_password /\ ev.kind = "text"
    /\ Handles(i, ev, "process_login_password")
    /\ LET password == Strip(ev.text)
       IN  IF Len(password) < 8
           THEN Return(i, "process_login_password", "invalid")
           ELSE /\ NoRequest
                /\ IF ~Has(bag[i], "username")
                   THEN Clear(i) /\ KeepStorage
                        /\ Done(i, "process_login_password", "no_username", None)
                   ELSE \/ LoginFailed(i)              \* POST /auth/login failed
                        \/ \E resp \in LoginResponses :
                             complete_login(i, resp, bag[i].username, password)

switch_login_account(i, ev) ==
    /\ DataIs(ev, <<"auth", "login_switch">>)
    /\ Handles(i, ev, "switch_login_account")
    /\ credentials' = [credentials EXCEPT ![i] = clear_user_credentials(@)]
    /\ bag' = [bag EXCEPT ![i] = EmptyBag]
    /\ entered' = [entered EXCEPT ![i] = <<>>]
    /\ restarts' = [restarts EXCEPT ![i] = 0]
    /\ SetState(i, Login_waiting_for_username)
    /\ NoRequest
    /\ Done(i, "switch_login_account", "ok", None)
    /\ UNCHANGED players

cancel_login_switch(i, ev) ==
    /\ DataIs(ev, <<"auth", "cancel">>)
    /\ Handles(i, ev, "cancel_login_switch")
    /\ Clear(i)                                 \* and show_main_menu
    /\ KeepStorage /\ NoRequest
    /\ Done(i, "cancel_login_switch", "ok", None)

start_registration(i, ev) ==
    /\ DataIs(ev, <<"auth", "register">>)
    /\ Handles(i, ev, "start_registration")
    /\ SetState(i, Reg_waiting_for_email)
    /\ Begin(i)
    /\ KeepStorage /\ NoRequest
    /\ Done(i, "start_registration", "ok", None)
    /\ UNCHANGED bag

\* A free-text step: the stripped text is accepted or the handler returns.
TextStep(i, h, accepted, u, next) ==
    IF ~accepted
    THEN Return(i, h, "invalid")
    ELSE /\ UpdateData(i, u)
         /\ SetState(i, next)
         /\ UNCHANGED <<entered, restarts>>
         /\ KeepStorage /\ NoRequest
         /\ Done(i, h, "ok", None)

process_email(i, ev) ==
    /\ fsm[i] = Reg_waiting_for_email /\ ev.kind = "text"
    /\ Handles(i, ev, "process_email")
    /\ LET email == Strip(ev.text)
       IN  TextStep(i, "process_email", validate_email(email),
                    [email |-> email, username |-> email], Reg_waiting_for_password)

process_password(i, ev) ==
    /\ fsm[i] = Reg_waiting_for_password /\ ev.kind = "text"
    /\ Handles(i, ev, "process_password")
    /\ LET password == Strip(ev.text)
       IN  TextStep(i, "process_password", Len(password) >= 8,
                    [password |-> password], Reg_waiting_for_display_name)

process_display_name(i, ev) ==
    /\ fsm[i] = Reg_waiting_for_display_name /\ ev.kind = "text"
    /\ Handles(i, ev, "process_display_name")
    /\ LET display_name == Strip(ev.text)
       IN  TextStep(i, "process_display_name", Len(display_name) >= 2,
                    [display_name |-> display_name], Reg_waiting_for_phone)

process_phone(i, ev) ==
    /\ fsm[i] = Reg_waiting_for_phone /\ ev.kind = "text"
    /\ Handles(i, ev, "process_phone")
    /\ LET phone_text == Strip(ev.text)
       IN  IF phone_text = T_skip \/ ~validate_phone(phone_text)
           THEN Return(i, "process_phone", "invalid")
           ELSE /\ NoRequest
                /\ Clear(i)
                /\ \/ /\ {"username", "email", "password", "display_name"}
                            \subseteq DOMAIN bag[i]
                      /\ players' = [players EXCEPT ![i] =
                             register_player(storageMode, @, LanguageOr(@, "en"))]
                      /\ credentials' = [credentials EXCEPT ![i] =
                             set_user_credentials(storageMode, @, bag[i].email,
                                                  bag[i].password)]
                      /\ Done(i, "process_phone", "ok", None)
                   \/ /\ KeepStorage            \* POST /players/register failed
                      /\ Done(i, "process_phone", "backend_error", None)

-----------------------------------------------------------------------------
(* handlers/main_menu.py *)

\* what the user selected by tapping a button of the list pfx:<id>; a tap on
\* any other button (a page button, a button of another list) selects no item
SelectedId(ev, pfx) == IF ev.path = pfx THEN ev.n ELSE NoArg

Enter(i, k, v) ==
    /\ entered' = [entered EXCEPT ![i] = (k :> v) @@ @]
    /\ UNCHANGED restarts

cmd_main_menu_keeping_bag(i, ev) ==
    /\ (TextIs(ev, L_MainMenu) \/ TextIs(ev, T_menu) \/ DataIs(ev, <<"back", "main">>))
    /\ Handles(i, ev, "cmd_main_menu")
    /\ SetState(i, NoState)
    /\ UNCHANGED <<bag, entered, restarts>>
    /\ KeepStorage /\ NoRequest
    /\ Done(i, "cmd_main_menu", "ok", Some(fsm[i]))

\* the outcome records the step that was left
cmd_main_menu(i, ev) ==
    /\ (TextIs(ev, L_MainMenu) \/ TextIs(ev, T_menu) \/ DataIs(ev, <<"back", "main">>))
    /\ Handles(i, ev, "cmd_main_menu")
    /\ Clear(i)             \* show_admin_menu, show_agent_menu or show_main_menu
    /\ KeepStorage /\ NoRequest
    /\ Done(i, "cmd_main_menu", "ok", Some(fsm[i]))

\* cmd_deposit / cmd_withdraw: staff are sent to their panel, everyone else
\* enters the flow's first state (start_deposit_flow / start_withdraw_flow)
StartFlow(i, h, first) ==
    /\ KeepStorage /\ NoRequest
    /\ IF get_user_role(credentials[i]) \in {Some("admin"), Some("agent")}
       THEN Clear(i) /\ Done(i, h, "staff", None)
       ELSE \/ /\ SetState(i, first)
               /\ Begin(i)
               /\ UNCHANGED bag
               /\ Done(i, h, "ok", None)
            \/ /\ KeepContext                   \* the bank list could not be fetched
               /\ Done(i, h, "backend_error", None)

cmd_deposit(i, ev) ==
    /\ TextIs(ev, L_Deposit)
    /\ Handles(i, ev, "cmd_deposit")
    /\ StartFlow(i, "cmd_deposit", Dep_selecting_bank)

cmd_withdraw(i, ev) ==
    /\ TextIs(ev, L_Withdraw)
    /\ Handles(i, ev, "cmd_withdraw")
    /\ StartFlow(i, "cmd_withdraw", Wd_selecting_bank)

\* cmd_deposit / cmd_withdraw up to `await api_client.get_deposit_banks()` /
\* get_withdrawal_banks() of start_deposit_flow / start_withdraw_flow: the
\* role was read before, the handler is suspended there
start_flow_awaits(i, ev) ==
    /\ (TextIs(ev, L_Deposit) \/ TextIs(ev, L_Withdraw))
    /\ profile = "hasty_guest"
    /\ LET h == IF TextIs(ev, L_Deposit) THEN "cmd_deposit" ELSE "cmd_withdraw"
       IN  /\ Handles(i, ev, h)
           /\ get_user_role(credentials[i]) \notin {Some("admin"), Some("agent")}
           /\ KeepContext /\ KeepStorage /\ NoRequest
           /\ Suspend(i, [h |-> h, files |-> {}])
           /\ Finished(i, h, "awaiting", None)

\* the bank list answers a suspended cmd_deposit / cmd_withdraw: the flow's
\* first state is set, or the except branch answers
start_flow_resumes(i) ==
    \E k \in 1..Len(tasks[i]) :
      LET task == tasks[i][k]
      IN /\ task.h \in {"cmd_deposit", "cmd_withdraw"}
         /\ Resume(i, k)
         /\ KeepStorage /\ NoRequest
         /\ \/ /\ SetState(i, IF task.h = "cmd_deposit" THEN Dep_selecting_bank
                                ELSE Wd_selecting_bank)
               /\ Begin(i)
               /\ UNCHANGED bag
               /\ Finished(i, "resume", "ok", Some(task.h))
            \/ /\ KeepContext
               /\ Finished(i, "resume", "backend_error", Some(task.h))

cmd_logout(i, ev) ==
    /\ (TextIs(ev, L_Logout) \/ TextIs(ev, T_logout))
    /\ Handles(i, ev, "cmd_logout")
    /\ IF ~is_user_logged_in(credentials[i])
       THEN Return(i, "cmd_logout", "not_logged_in")
       ELSE /\ credentials' = [credentials EXCEPT
                                 ![i] = clear_admin_token(clear_user_credentials(@))]
            /\ Clear(i)                         \* state.clear(), then cmd_start
            /\ UNCHANGED players
            /\ NoRequest
            /\ Done(i, "cmd_logout", "ok", None)

\* handlers/admin_menu.py
admin_logout(i, ev) ==
    /\ DataIs(ev, <<"admin", "logout">>)
    /\ Handles(i, ev, "admin_logout")
    /\ credentials' = [credentials EXCEPT
                         ![i] = clear_user_credentials(clear_admin_token(@))]
    /\ Clear(i)
    /\ UNCHANGED players
    /\ NoRequest
    /\ Done(i, "admin_logout", "ok", None)

\* cmd_help, start_telegram_login and the paginate_* handlers of
\* inline_lists.py: they answer and change nothing
stateless_handler(i, ev) ==
    /\ Sends(profile, ev)
    /\ Route(fsm[i], get_user_role(credentials[i]), ev) \in StatelessHandlers
    /\ KeepContext /\ KeepStorage /\ NoRequest
    \* cmd_help answers a fixed text; the others fetch templates or a list
    /\ DoneCalling(i, "stateless_handler", "ok", None,
                   Route(fsm[i], get_user_role(credentials[i]), ev) # "cmd_help")

\* no handler matches: the update is dropped
unhandled(i, ev) ==
    /\ Handles(i, ev, "unhandled")
    /\ Return(i, "unhandled", "dropped")

-----------------------------------------------------------------------------
(* handlers/deposit_flow.py *)

BankRecord(kind, bank_id) == [id |-> bank_id, type |-> kind]

\* float(amount_data) of a quick-amount button
QuickAmount(n) == [nan |-> FALSE, num |-> n, exp |-> 0]

\* a site step entered although the site list could not be fetched
proceed_to_betting_site_advancing(i, h, next) ==
    /\ SetState(i, next)
    /\ \E out \in {"ok", "backend_error"} : Done(i, h, out, None)

\* proceed_to_betting_site: the active sites are fetched and shown
proceed_to_betting_site(i, h, next) ==
    \/ SetState(i, next) /\ Done(i, h, "ok", None)
    \/ UNCHANGED fsm /\ Done(i, h, "backend_error", None)

\* select_deposit_bank / select_withdraw_bank up to the lookup of the bank
BankLookup(i, ev, h, known) ==
    \/ ev.n = NoArg /\ Return(i, h, "error")    \* int() raises
    \/ ev.n # NoArg /\ Return(i, h, "backend_error")
    \/ ev.n # NoArg /\ ev.n \notin known /\ Return(i, h, "not_found")

select_deposit_bank(i, ev) ==
    /\ fsm[i] = Dep_selecting_bank /\ DataStartsWith(ev, <<"bank", "deposit">>)
    /\ Handles(i, ev, "select_deposit_bank")
    /\ \/ BankLookup(i, ev, "select_deposit_bank",
                     DepositBankIds \cup InactiveDepositBankIds)
       \/ /\ ev.n \in DepositBankIds \cup InactiveDepositBankIds
          /\ UpdateData(i, [deposit_bank_id |-> ev.n, bank |-> BankRecord("deposit", ev.n)])
          /\ SetState(i, Dep_entering_amount)
          /\ Enter(i, "bank", SelectedId(ev, <<"bank", "deposit">>))
          /\ KeepStorage /\ NoRequest
          /\ Done(i, "select_deposit_bank", "ok", None)

\* select_amount / select_withdraw_amount
AmountButton(i, ev, h, same, next) ==
    /\ KeepStorage /\ NoRequest
    /\ IF ev.path = <<"amount", "custom">>
       THEN /\ SetState(i, same)
            /\ UNCHANGED <<bag, entered, restarts>>
            /\ Done(i, h, "custom", None)
       ELSE IF ev.n = NoArg
       THEN KeepContext /\ Done(i, h, "invalid", None)      \* float() raises
       ELSE /\ UpdateData(i, [amount |-> QuickAmount(ev.n)])
            /\ Enter(i, "amount", QuickAmount(ev.n))
            /\ proceed_to_betting_site(i, h, next)

select_amount(i, ev) ==
    /\ fsm[i] = Dep_entering_amount /\ DataStartsWith(ev, <<"amount">>)
    /\ Handles(i, ev, "select_amount")
    /\ AmountButton(i, ev, "select_amount", Dep_entering_amount, Dep_selecting_betting_site)

\* an amount step that goes on to the site list whatever the validator says
AmountText_advancing(i, ev, h, next) ==
    /\ UNCHANGED <<bag, entered, restarts>>
    /\ KeepStorage /\ NoRequest
    /\ SetState(i, next)
    /\ Done(i, h, IF validate_amount(ev.text).valid THEN "ok" ELSE "invalid", None)

\* process_amount / process_withdraw_amount
AmountText(i, ev, h, next) ==
    /\ LET v == validate_amount(ev.text)
       IN  IF ~v.valid
           THEN Return(i, h, "invalid")
           ELSE /\ UpdateData(i, [amount |-> Val(v.amount)])
                /\ Enter(i, "amount", Val(v.amount))
                /\ KeepStorage /\ NoRequest
                /\ proceed_to_betting_site(i, h, next)

process_amount(i, ev) ==
    /\ fsm[i] = Dep_entering_amount /\ ev.kind = "text"
    /\ Handles(i, ev, "process_amount")
    /\ AmountText(i, ev, "process_amount", Dep_selecting_betting_site)

\* select_betting_site / select_withdraw_betting_site
SiteButton(i, ev, h, pfx, next) ==
    /\ IF ev.n = NoArg
       THEN Return(i, h, "error")               \* int() raises
       ELSE /\ UpdateData(i, [betting_site_id |-> ev.n])
            /\ SetState(i, next)
            /\ Enter(i, "site", SelectedId(ev, pfx))
            /\ KeepStorage /\ NoRequest
            /\ Done(i, h, "ok", None)

select_betting_site(i, ev) ==
    /\ fsm[i] = Dep_selecting_betting_site /\ DataStartsWith(ev, <<"site">>)
    /\ Handles(i, ev, "select_betting_site")
    /\ SiteButton(i, ev, "select_betting_site", <<"site">>, Dep_entering_player_site_id)

\* process_player_site_id / process_withdraw_player_site_id
SiteIdText(i, ev, h, next) ==
    /\ IF ~validate_player_site_id(ev.text)
       THEN Return(i, h, "invalid")
       ELSE /\ UpdateData(i, [player_site_id |-> Strip(ev.text)])
            /\ SetState(i, next)
            /\ Enter(i, "player_site_id", ev.text)
            /\ KeepStorage /\ NoRequest
            /\ Done(i, h, "ok", None)

process_player_site_id(i, ev) ==
    /\ fsm[i] = Dep_entering_player_site_id /\ ev.kind = "text"
    /\ Handles(i, ev, "process_player_site_id")
    /\ SiteIdText(i, ev, "process_player_site_id", Dep_uploading_screenshot)

\* the screenshot step ends: proceed_to_confirmation
Screenshot(i, h, file_id, next) ==
    /\ UpdateData(i, [screenshot_file_id |-> file_id])
    /\ SetState(i, next)
    /\ UNCHANGED <<entered, restarts>>
    /\ KeepStorage /\ NoRequest
    /\ Done(i, h, "ok", None)

PhotoFileId == "photo-1"

process_screenshot(i, ev) ==
    /\ fsm[i] = Dep_uploading_screenshot /\ ev.kind = "photo"
    /\ Handles(i, ev, "process_screenshot")
    /\ Screenshot(i, "process_screenshot", Some(PhotoFileId), Dep_confirming)

UpperSeq == <<"A", "B", "C", "D", "E", "F", "G", "H", "I", "J", "K", "L", "M",
              "N", "O", "P", "Q", "R", "S", "T", "U", "V", "W", "X", "Y", "Z">>
LowerSeq == <<"a", "b", "c", "d", "e", "f", "g", "h", "i", "j", "k", "l", "m",
              "n", "o", "p", "q", "r", "s", "t", "u", "v", "w", "x", "y", "z">>

\* str.lower()
Lower(s) ==
    [k \in 1..Len(s) |->
        IF s[k] \in UpperCase
        THEN LowerSeq[CHOOSE n \in 1..26 : UpperSeq[n] = s[k]]
        ELSE s[k]]

\* str.lstrip('/')
RECURSIVE LStripSlash(_)
LStripSlash(s) == IF s # <<>> /\ Head(s) = "/" THEN LStripSlash(Tail(s)) ELSE s

IsSkip(text) == LStripSlash(Strip(Lower(text))) = <<"s", "k", "i", "p">>

handle_screenshot_text(i, ev) ==
    /\ fsm[i] = Dep_uploading_screenshot /\ ev.kind = "text"
    /\ Handles(i, ev, "handle_screenshot_text")
    /\ IF IsSkip(ev.text)
       THEN Screenshot(i, "handle_screenshot_text", None, Dep_confirming)
       ELSE Return(i, "handle_screenshot_text", "invalid")

\* a request built with the site id in the place of the bank id
TransactionRequest_swapped(type, player_uuid, data) ==
    [transaction_type |-> type,
     player_uuid |-> player_uuid,
     amount |-> data.amount,
     betting_site_id |-> data.betting_site_id,
     player_site_id |-> data.player_site_id,
     bank_id |-> data.betting_site_id,
     withdrawal_address |-> IF type = "DEPOSIT" THEN None
                            ELSE IF Has(data, "withdrawal_address")
                                 THEN Some(data.withdrawal_address) ELSE Some(<<>>),
     screenshot |-> data.screenshot_file_id]

\* the create_transaction request of confirm_deposit / confirm_withdraw
TransactionRequest(type, player_uuid, data) ==
    [transaction_type |-> type,
     player_uuid |-> player_uuid,
     amount |-> data.amount,
     betting_site_id |-> data.betting_site_id,
     player_site_id |-> data.player_site_id,
     bank_id |-> IF type = "DEPOSIT" THEN data.deposit_bank_id
                 ELSE data.withdrawal_bank_id,
     withdrawal_address |-> IF type = "DEPOSIT" THEN None
                            ELSE IF Has(data, "withdrawal_address")
                                 THEN Some(data.withdrawal_address) ELSE Some(<<>>),
     screenshot |-> data.screenshot_file_id]

RequestKeys(type) ==
    {"amount", "betting_site_id", "player_site_id", "screenshot_file_id",
     IF type = "DEPOSIT" THEN "deposit_bank_id" ELSE "withdrawal_bank_id"}

\* The create_transaction requests sent in the flow instance: none, one, or
\* two and more (kept with what the user entered).
YesSent(e) == IF Has(e, "yes") THEN e.yes ELSE 0
CountYes(i) ==
    entered' = [entered EXCEPT
                  ![i] = ("yes" :> (IF YesSent(@) = 0 THEN 1 ELSE 2)) @@ @]

\* data.get("screenshot_file_id") is truthy: evidence is attached
HasScreenshot(data) == Get(data, "screenshot_file_id") \notin {None, Some(None)}

\* FileService.download_telegram_file: the NamedTemporaryFile(delete=False)
\* it creates for the file, named here after the file
download_telegram_file(file_id) == <<"tmp", file_id>>

\* the temporary copy that confirm_* downloaded for the data of the flow
Downloaded(data) ==
    IF HasScreenshot(data) THEN {download_telegram_file(Val(data.screenshot_file_id))}
    ELSE {}

\* FileService.cleanup_file, as the confirm handlers call it: only after
\* create_transaction has returned
cleanup_file(files) == {}

\* confirm_deposit / confirm_withdraw
Confirm(i, h, type) ==
    /\ UNCHANGED credentials
    /\ \/ /\ players[i].player_uuid = None      \* POST /players failed
          /\ Return(i, h, "backend_error")
       \/ /\ players' = [players EXCEPT
                           ![i] = get_or_create_guest_player(storageMode, @, "en")]
          /\ \/ /\ HasScreenshot(bag[i])
                /\ KeepContext /\ created' = <<>>
                /\ \/ tempfiles' = {}               \* bot.get_file failed
                   \/ tempfiles' = Downloaded(bag[i]) \* bot.download_file failed
                /\ Done(i, h, "download_failed", None)
             \/ /\ ~(RequestKeys(type) \subseteq DOMAIN bag[i])
                /\ KeepContext /\ created' = <<>>  \* KeyError
                /\ tempfiles' = Downloaded(bag[i])
                /\ Done(i, h, "error", None)
             \/ /\ RequestKeys(type) \subseteq DOMAIN bag[i]
                /\ created' = <<TransactionRequest(type, Val(players'[i].player_uuid),
                                                    bag[i])>>
                /\ \/ /\ tempfiles' = cleanup_file(Downloaded(bag[i]))
                      /\ Clear(i) /\ Done(i, h, "ok", None)
                   \/ /\ tempfiles' = Downloaded(bag[i])    \* create_transaction failed
                      /\ CountYes(i) /\ UNCHANGED <<fsm, bag, restarts>>
                      /\ Done(i, h, "backend_error", None)

\* confirm_deposit / confirm_withdraw up to the call of create_transaction,
\* which a second yes is not kept from reaching
ConfirmAwaits_deduplicating(i, h, type) ==
    /\ UNCHANGED credentials
    /\ players' = [players EXCEPT
                     ![i] = get_or_create_guest_player(storageMode, @, "en")]
    /\ RequestKeys(type) \subseteq DOMAIN bag[i]
    /\ IF YesSent(entered[i]) = 0
       THEN /\ created' = <<TransactionRequest(type, Val(players'[i].player_uuid),
                                                bag[i])>>
            /\ tempfiles' = {}
            /\ CountYes(i) /\ UNCHANGED <<fsm, bag, restarts>>
            /\ Suspend(i, [h |-> h, files |-> Downloaded(bag[i])])
            /\ Finished(i, h, "awaiting", None)
       ELSE /\ KeepContext /\ NoRequest
            /\ Done(i, h, "duplicate", None)

\* the handler is suspended there, the request sent, the screenshot downloaded
ConfirmAwaits(i, h, type) ==
    /\ UNCHANGED credentials
    /\ players' = [players EXCEPT
                     ![i] = get_or_create_guest_player(storageMode, @, "en")]
    /\ RequestKeys(type) \subseteq DOMAIN bag[i]
    /\ created' = <<TransactionRequest(type, Val(players'[i].player_uuid), bag[i])>>
    /\ tempfiles' = {}
    /\ CountYes(i) /\ UNCHANGED <<fsm, bag, restarts>>
    /\ Suspend(i, [h |-> h, files |-> Downloaded(bag[i])])
    /\ Finished(i, h, "awaiting", None)

confirm_awaits(i, ev) ==
    /\ fsm[i] \in {Dep_confirming, Wd_confirming} /\ DataIs(ev, <<"confirm", "yes">>)
    /\ Handles(i, ev, IF fsm[i] = Dep_confirming THEN "confirm_deposit"
                      ELSE "confirm_withdraw")
    /\ IF fsm[i] = Dep_confirming
       THEN ConfirmAwaits(i, "confirm_deposit", "DEPOSIT")
       ELSE ConfirmAwaits(i, "confirm_withdraw", "WITHDRAW")

\* create_transaction answers a suspended confirm_deposit / confirm_withdraw:
\* cleanup_file and state.clear() (and show_main_menu's), or the except branch
confirm_resumes(i) ==
    \E k \in 1..Len(tasks[i]) :
      LET task == tasks[i][k]
      IN /\ task.h \in {"confirm_deposit", "confirm_withdraw"}
         /\ Resume(i, k)
         /\ KeepStorage /\ created' = <<>>
         /\ \/ /\ tempfiles' = cleanup_file(task.files)
               /\ Clear(i)
               /\ Finished(i, "resume", "ok", Some(task.h))
            \/ /\ tempfiles' = task.files
               /\ KeepContext
               /\ Finished(i, "resume", "backend_error", Some(task.h))

confirm_deposit(i, ev) ==
    /\ fsm[i] = Dep_confirming /\ DataIs(ev, <<"confirm", "yes">>)
    /\ Handles(i, ev, "confirm_deposit")
    /\ Confirm(i, "confirm_deposit", "DEPOSIT")

Cancel_keeping_data(i, h) ==
    /\ SetState(i, NoState)
    /\ UNCHANGED <<bag, entered, restarts>>
    /\ KeepStorage /\ NoRequest
    /\ Done(i, h, "ok", Some(fsm[i]))

\* cancel_deposit, cancel_withdraw (confirm:no) and cancel_flow (cancel);
\* the outcome records the step that was cancelled
Cancel(i, h) ==
    /\ Clear(i)
    /\ KeepStorage /\ NoRequest
    /\ Done(i, h, "ok", Some(fsm[i]))

cancel_deposit(i, ev) ==
    /\ fsm[i] = Dep_confirming /\ DataIs(ev, <<"confirm", "no">>)
    /\ Handles(i, ev, "cancel_deposit")
    /\ Cancel(i, "cancel_deposit")

cancel_flow(i, ev) ==
    /\ DataIs(ev, <<"cancel">>)
    /\ Handles(i, ev, "cancel_flow")
    /\ Cancel(i, "cancel_flow")

-----------------------------------------------------------------------------
(* handlers/withdraw_flow.py *)

\* ", ".join(values)
RECURSIVE Join(_)
Join(values) ==
    IF values = <<>> THEN <<>>
    ELSE IF Len(values) = 1 THEN values[1]
    ELSE values[1] \o <<",", " ">> \o Join(Tail(values))

select_withdraw_bank(i, ev) ==
    /\ fsm[i] = Wd_selecting_bank /\ DataStartsWith(ev, <<"bank", "withdraw">>)
    /\ Handles(i, ev, "select_withdraw_bank")
    /\ \/ BankLookup(i, ev, "select_withdraw_bank", WithdrawalBankIds)
       \/ /\ ev.n \in WithdrawalBankIds
          /\ Enter(i, "bank", SelectedId(ev, <<"bank", "withdraw">>))
          /\ KeepStorage /\ NoRequest
          /\ Done(i, "select_withdraw_bank", "ok", None)
          /\ LET u == [withdrawal_bank_id |-> ev.n, bank |-> BankRecord("withdraw", ev.n)]
             IN  IF RequiredFields(ev.n) # <<>>
                 THEN /\ UpdateData(i, [required_fields |-> RequiredFields(ev.n),
                                        current_field_index |-> 0,
                                        withdrawal_fields |-> <<>>] @@ u)
                      /\ SetState(i, Wd_entering_required_fields)
                 ELSE /\ UpdateData(i, u)
                      /\ SetState(i, Wd_entering_amount)    \* proceed_to_amount

\* a store that forgets the answers given before
SetField_alone(fields, name, value) == <<<<name, value>>>>

\* withdrawal_fields is keyed by field name in insertion order: here the
\* sequence of (name, value) pairs
SetField(fields, name, value) ==
    IF \E k \in 1..Len(fields) : fields[k][1] = name
    THEN [k \in 1..Len(fields) |->
            IF fields[k][1] = name THEN <<name, value>> ELSE fields[k]]
    ELSE Append(fields, <<name, value>>)

FieldValues(fields) == [k \in 1..Len(fields) |-> fields[k][2]]

process_required_field(i, ev) ==
    /\ fsm[i] = Wd_entering_required_fields /\ ev.kind = "text"
    /\ Handles(i, ev, "process_required_field")
    /\ LET data == bag[i]
           field_value == Strip(ev.text)
       IN  IF field_value = <<>>                \* every field of the catalog is required
           THEN Return(i, "process_required_field", "invalid")
           ELSE LET withdrawal_fields ==
                        SetField(data.withdrawal_fields,
                                 data.required_fields[data.current_field_index + 1],
                                 field_value)
                    next_index == data.current_field_index + 1
                IN  /\ KeepStorage /\ NoRequest
                    /\ UNCHANGED <<entered, restarts>>
                    /\ Done(i, "process_required_field", "ok", None)
                    /\ IF next_index < Len(data.required_fields)
                       THEN /\ UpdateData(i, [withdrawal_fields |-> withdrawal_fields,
                                              current_field_index |-> next_index])
                            /\ UNCHANGED fsm
                       ELSE /\ UpdateData(i, [withdrawal_fields |-> withdrawal_fields,
                                              withdrawal_address |->
                                                  Join(FieldValues(withdrawal_fields))])
                            /\ SetState(i, Wd_entering_amount)

select_withdraw_amount(i, ev) ==
    /\ fsm[i] = Wd_entering_amount /\ DataStartsWith(ev, <<"amount">>)
    /\ Handles(i, ev, "select_withdraw_amount")
    /\ AmountButton(i, ev, "select_withdraw_amount", Wd_entering_amount,
                    Wd_selecting_betting_site)

process_withdraw_amount(i, ev) ==
    /\ fsm[i] = Wd_entering_amount /\ ev.kind = "text"
    /\ Handles(i, ev, "process_withdraw_amount")
    /\ AmountText(i, ev, "process_withdraw_amount", Wd_selecting_betting_site)

select_withdraw_betting_site(i, ev) ==
    /\ fsm[i] = Wd_selecting_betting_site /\ DataStartsWith(ev, <<"site", "withdraw">>)
    /\ Handles(i, ev, "select_withdraw_betting_site")
    /\ SiteButton(i, ev, "select_withdraw_betting_site", <<"site", "withdraw">>,
                  Wd_entering_player_site_id)

process_withdraw_player_site_id(i, ev) ==
    /\ fsm[i] = Wd_entering_player_site_id /\ ev.kind = "text"
    /\ Handles(i, ev, "process_withdraw_player_site_id")
    /\ SiteIdText(i, ev, "process_withdraw_player_site_id", Wd_uploading_screenshot)

process_withdraw_screenshot(i, ev) ==
    /\ fsm[i] = Wd_uploading_screenshot /\ ev.kind = "photo"
    /\ Handles(i, ev, "process_withdraw_screenshot")
    /\ Screenshot(i, "process_withdraw_screenshot", Some(PhotoFileId), Wd_confirming)

skip_withdraw_screenshot(i, ev) ==
    /\ fsm[i] = Wd_uploading_screenshot /\ TextIs(ev, T_skip)
    /\ Handles(i, ev, "skip_withdraw_screenshot")
    /\ Screenshot(i, "skip_withdraw_screenshot", None, Wd_confirming)

confirm_withdraw(i, ev) ==
    /\ fsm[i] = Wd_confirming /\ DataIs(ev, <<"confirm", "yes">>)
    /\ Handles(i, ev, "confirm_withdraw")
    /\ Confirm(i, "confirm_withdraw", "WITHDRAW")

cancel_withdraw(i, ev) ==
    /\ fsm[i] = Wd_confirming /\ DataIs(ev, <<"confirm", "no">>)
    /\ Handles(i, ev, "cancel_withdraw")
    /\ Cancel(i, "cancel_withdraw")

-----------------------------------------------------------------------------
(* handlers/admin_menu.py *)

\* A transaction as the backend returns it: its id, status and assigned agent.
Transaction(id, status, agent) == [id |-> id, status |-> status, assignedAgent |-> agent]

\* The transactions a GET admin/transactions answers with: any of the
\* transactions, pending and unassigned.
ListedTransactions == {Transaction(id, "PENDING", None) : id \in TxIds}

AdminTransactionsResponses == SUBSET ListedTransactions

\* {tx.get("id"): tx for tx in transactions}
transactions_dict(transactions) ==
    [id \in {t.id : t \in transactions} |-> CHOOSE t \in transactions : t.id = id]

\* data.get("transactions_cache", {})
transactions_cache(data) ==
    IF Has(data, "transactions_cache") THEN data.transactions_cache ELSE <<>>

\* transactions_cache[transaction_id] = tx
CachePut(cache, id, tx) == (id :> tx) @@ cache

\* the FSM context of a handler that has worked on it: state st, data d
Context(i, st, d) ==
    /\ fsm' = [fsm EXCEPT ![i] = st]
    /\ bag' = [bag EXCEPT ![i] = d]

\* show_all_transactions_for_message / show_recent_transactions_for_message,
\* called on the context (st, d) by handle_admin_menu_buttons, which has
\* fetched the button templates from the backend before
ListTransactions(i, h, st, d) ==
    IF get_admin_token(credentials[i]) = None
    THEN Context(i, st, d) /\ DoneCalling(i, h, "session_expired", None, TRUE)
    ELSE \/ Context(i, st, d) /\ DoneCalling(i, h, "backend_error", None, TRUE)
         \/ \E transactions \in AdminTransactionsResponses :
              IF transactions = {}
              THEN Context(i, st, d) /\ DoneCalling(i, h, "empty", None, TRUE)
              ELSE /\ Context(i, st, [transactions_cache |->
                                        transactions_dict(transactions)] @@ d)
                   /\ DoneCalling(i, h, "listed",
                                  Some({t.id : t \in transactions}), TRUE)

\* the body of handle_admin_menu_buttons, called on the context (st, d); the
\* Logout button never gets here: cmd_logout of main_menu.py takes its text
AdminMenuButtons(i, h, text, st, d) ==
    /\ KeepStorage /\ NoRequest
    /\ IF st \in DepositStates \cup WithdrawStates \cup LoginStates
                 \cup RegistrationStates
       THEN Context(i, st, d) /\ DoneCalling(i, h, "skipped", None, FALSE)
       ELSE IF text \in {L_AllTransactions, L_Recent}
       THEN ListTransactions(i, h, st, d)
       ELSE IF text = L_ByDate                       \* request_date_for_message
       THEN Context(i, Adm_entering_date, d)
            /\ DoneCalling(i, h, "date_requested", None, TRUE)
       ELSE Context(i, st, d) /\ DoneCalling(i, h, "ok", None, TRUE)

handle_admin_menu_buttons(i, ev) ==
    /\ RoleFilter(get_user_role(credentials[i]), {"admin"})
    /\ ev.kind = "text" /\ fsm[i] \notin AdminTransactionStates
    /\ Handles(i, ev, "handle_admin_menu_buttons")
    /\ AdminMenuButtons(i, "handle_admin_menu_buttons", ev.text, fsm[i], bag[i])
    /\ UNCHANGED <<entered, restarts>>

\* request_date: the date is asked for, whoever tapped
request_date(i, ev) ==
    /\ DataIs(ev, <<"admin", "transactions", "date">>)
    /\ Handles(i, ev, "request_date")
    /\ SetState(i, Adm_entering_date)
    /\ UNCHANGED <<bag, entered, restarts>>
    /\ KeepStorage /\ NoRequest
    /\ Done(i, "request_date", "ok", None)

\* datetime.strptime(date_str, "%Y-%m-%d") succeeds
LeapYear(y) == (y % 4 = 0 /\ y % 100 # 0) \/ y % 400 = 0
DaysIn(y, m) ==
    IF m = 2 THEN (IF LeapYear(y) THEN 29 ELSE 28)
    ELSE IF m \in {4, 6, 9, 11} THEN 30 ELSE 31
IsDate(date_str) ==
    \E b \in {7, 8} :
      /\ Len(date_str) \in (b + 1)..(b + 2)
      /\ date_str[5] = "-" /\ date_str[b] = "-"
      /\ LET year == SubSeq(date_str, 1, 4)
             month == SubSeq(date_str, 6, b - 1)
             day == SubSeq(date_str, b + 1, Len(date_str))
         IN /\ AllIn(year, Digits) /\ AllIn(month, Digits) /\ AllIn(day, Digits)
            /\ DigitsValue(year) >= 1
            /\ DigitsValue(month) \in 1..12
            /\ DigitsValue(day) \in 1..DaysIn(DigitsValue(year), DigitsValue(month))

\* show_transactions_by_date: the text is a button of the menu
MenuEmoji == {"U+1F4CB", "U+1F550", "U+1F4C5", "U+1F310", "U+1F6AA", "U+1F519",
              "U+1F4F1"}
is_menu_command(date_str) ==
    \/ date_str \in {L_AllTransactions, L_Recent, L_ByDate, L_Logout}
    \/ (date_str # <<>> /\ date_str[1] \in MenuEmoji)

\* the list is stored in the bag and rendered, and then state.clear() runs
show_transactions_by_date(i, ev) ==
    /\ fsm[i] = Adm_entering_date /\ ev.kind = "text"
    /\ Handles(i, ev, "show_transactions_by_date")
    /\ LET date_str == Strip(ev.text)
           h == "show_transactions_by_date"
       IN IF ~IsDate(date_str)
          THEN IF is_menu_command(date_str)
               THEN \* state.clear(), then handle_admin_menu_buttons is called
                    /\ AdminMenuButtons(i, h, ev.text, NoState, EmptyBag)
                    /\ entered' = [entered EXCEPT ![i] = <<>>]
                    /\ restarts' = [restarts EXCEPT ![i] = 0]
               ELSE Return(i, h, "invalid")
          ELSE IF get_admin_token(credentials[i]) = None
          THEN Return(i, h, "session_expired")
          ELSE \/ Return(i, h, "backend_error")
               \/ \E transactions \in AdminTransactionsResponses :
                    IF transactions = {}
                    THEN Return(i, h, "empty")
                    ELSE /\ Clear(i)
                         /\ KeepStorage /\ NoRequest
                         /\ Done(i, h, "listed", Some({t.id : t \in transactions}))

\* show_transaction_details, the detail view of transaction id: from the
\* cache of the bag, or fetched with the list of the backend and cached
show_transaction_details(i, ev) ==
    /\ DataStartsWith(ev, <<"admin", "tx">>)
    /\ Handles(i, ev, "show_transaction_details")
    /\ LET id == ev.n
           h == "show_transaction_details"
           cache == transactions_cache(bag[i])
       IN IF get_admin_token(credentials[i]) = None
          THEN Return(i, h, "session_expired")
          ELSE IF id \in DOMAIN cache
          THEN /\ UpdateData(i, [selected_transaction_id |-> id])
               /\ UNCHANGED <<fsm, entered, restarts>>
               /\ KeepStorage /\ NoRequest
               /\ Done(i, h, "cached", Some(cache[id]))
          ELSE \/ Return(i, h, "backend_error")
               \/ \E transactions \in AdminTransactionsResponses :
                    IF id \notin {t.id : t \in transactions}
                    THEN Return(i, h, "not_found")
                    ELSE LET tx == transactions_dict(transactions)[id]
                         IN /\ UpdateData(i, [transactions_cache |-> CachePut(cache, id, tx),
                                              selected_transaction_id |-> id])
                            /\ UNCHANGED <<fsm, entered, restarts>>
                            /\ KeepStorage /\ NoRequest
                            /\ Done(i, h, "fetched", Some(tx))

\* show_transaction_details up to the fetch of a transaction that is not in
\* the cache: the handler is suspended with the cache it read (a dict of its
\* own when the bag had none)
show_transaction_details_awaits(i, ev) ==
    /\ DataStartsWith(ev, <<"admin", "tx">>)
    /\ Handles(i, ev, "show_transaction_details")
    /\ get_admin_token(credentials[i]) # None
    /\ ev.n \notin DOMAIN transactions_cache(bag[i])
    /\ KeepContext /\ KeepStorage /\ NoRequest
    /\ Suspend(i, [h |-> "show_transaction_details", id |-> ev.n,
                   cache |-> transactions_cache(bag[i]),
                   own |-> ~Has(bag[i], "transactions_cache")])
    /\ Finished(i, "show_transaction_details", "awaiting", None)

\* the fetch answers a suspended show_transaction_details: the transaction is
\* put in the cache that was read before the fetch and that cache is written
\* to the bag.  get_data() copies the bag; whether the dicts in it are copied
\* too is the storage's business, so a cache read from the bag may as well be
\* the one that is in the bag now.
show_transaction_details_resumes(i) ==
    \E k \in 1..Len(tasks[i]) :
      LET task == tasks[i][k]
      IN /\ task.h = "show_transaction_details"
         /\ Resume(i, k)
         /\ KeepStorage /\ NoRequest
         /\ UNCHANGED <<fsm, entered, restarts>>
         /\ \/ /\ UNCHANGED bag
               /\ Finished(i, "resume", "backend_error", Some(task.h))
            \/ \E transactions \in AdminTransactionsResponses :
                 IF task.id \notin {t.id : t \in transactions}
                 THEN /\ UNCHANGED bag
                      /\ Finished(i, "resume", "not_found", Some(task.h))
                 ELSE \E cache \in {task.cache} \cup
                                    (IF task.own THEN {}
                                     ELSE {transactions_cache(bag[i])}) :
                        /\ UpdateData(i, [transactions_cache |->
                                            CachePut(cache, task.id,
                                              transactions_dict(transactions)[task.id]),
                                          selected_transaction_id |-> task.id])
                        /\ Finished(i, "resume", "fetched", Some(task.h))

\* assign_agent_start: the agents are fetched and offered
assign_agent_start(i, ev) ==
    /\ DataStartsWith(ev, <<"admin", "assign">>)
    /\ Handles(i, ev, "assign_agent_start")
    /\ LET h == "assign_agent_start"
       IN IF get_admin_token(credentials[i]) = None
          THEN Return(i, h, "session_expired")
          ELSE \/ Return(i, h, "backend_error")
               \/ Return(i, h, "empty")             \* no agents
               \/ /\ UpdateData(i, [selected_transaction_id |-> ev.n])
                  /\ SetState(i, Adm_assigning_agent)
                  /\ UNCHANGED <<entered, restarts>>
                  /\ KeepStorage /\ NoRequest
                  /\ Done(i, h, "ok", None)

\* update_status_start: the statuses are offered
update_status_start(i, ev) ==
    /\ DataStartsWith(ev, <<"admin", "status">>)
    /\ Handles(i, ev, "update_status_start")
    /\ UpdateData(i, [selected_transaction_id |-> ev.n])
    /\ SetState(i, Adm_updating_status)
    /\ UNCHANGED <<entered, restarts>>
    /\ KeepStorage /\ NoRequest
    /\ Done(i, "update_status_start", "ok", None)

\* the backend's answers to PUT admin/transactions/{id}/status and /assign:
\* response["transaction"], the transaction as it is after the update
StatusResponses(id, status) ==
    {Transaction(id, status, a) : a \in {None} \cup {Some(g) : g \in AgentIds}}
AssignResponses(id, agent) ==
    {Transaction(id, st, Some(agent)) : st \in {"PENDING"}}

UpdateCache_dropping_others(i, h, id, responses) ==
    IF get_admin_token(credentials[i]) = None
    THEN Return(i, h, "session_expired")
    ELSE \/ Return(i, h, "backend_error")
         \/ \E updated_transaction \in responses :
              /\ UpdateData(i, [transactions_cache |->
                                  CachePut(<<>>, id, updated_transaction)])
              /\ SetState(i, NoState)
              /\ UNCHANGED <<entered, restarts>>
              /\ KeepStorage /\ NoRequest
              /\ Done(i, h, "ok", Some(updated_transaction))

\* assign_agent_confirm / update_status_confirm: the backend is called, the
\* cache entry of the transaction is overwritten with the answer, the state
\* (not the data) is reset
UpdateCache(i, h, id, responses) ==
    IF get_admin_token(credentials[i]) = None
    THEN Return(i, h, "session_expired")
    ELSE \/ Return(i, h, "backend_error")
         \/ \E updated_transaction \in responses :
              /\ UpdateData(i, [transactions_cache |->
                                  CachePut(transactions_cache(bag[i]), id,
                                           updated_transaction)])
              /\ SetState(i, NoState)
              /\ UNCHANGED <<entered, restarts>>
              /\ KeepStorage /\ NoRequest
              /\ Done(i, h, "ok", Some(updated_transaction))

assign_agent_confirm(i, ev) ==
    /\ DataStartsWith(ev, <<"admin", "assign_agent">>)
    /\ Handles(i, ev, "assign_agent_confirm")
    /\ LET transaction_id == int(ev.path[3])
           agent_id == ev.n
       IN UpdateCache(i, "assign_agent_confirm", transaction_id,
                      AssignResponses(transaction_id, agent_id))

update_status_confirm(i, ev) ==
    /\ DataStartsWith(ev, <<"admin", "set_status">>)
    /\ Handles(i, ev, "update_status_confirm")
    /\ LET transaction_id == int(ev.path[3])
           status == ev.path[4]
       IN UpdateCache(i, "update_status_confirm", transaction_id,
                      StatusResponses(transaction_id, status))

\* show_admin_menu: state.clear(), then the menu
show_admin_menu(i) == Clear(i)

\* back_to_admin_menu: state.clear(), the cache is put back, show_admin_menu
back_to_admin_menu(i, ev) ==
    /\ DataIs(ev, <<"admin", "back">>)
    /\ Handles(i, ev, "back_to_admin_menu")
    /\ show_admin_menu(i)
    /\ KeepStorage /\ NoRequest
    /\ Done(i, "back_to_admin_menu", "ok", None)

-----------------------------------------------------------------------------
(* services/notify_service.py and the /notify endpoint of bot.py *)

\* what the backend posts to /notify: the player the notification is for
Notifications == {[playerUuid |-> u] : u \in {None, Some(UserPlayerUuid)}}

\* NotifyService._find_telegram_id_by_player_uuid: the reverse lookup is not
\* implemented, it returns None for every player
find_telegram_id_by_player_uuid(player_uuid) == None

\* NotifyService.send_notification: bot.send_message to the chat it found
send_notification(player_uuid) ==
    IF find_telegram_id_by_player_uuid(player_uuid) = None
    THEN "not_found" ELSE "sent"

\* a service that looks the chat up whether or not a player is named
handle_backend_notification_unchecked(notification_data) ==
    send_notification(notification_data.playerUuid)

\* NotifyService.handle_backend_notification
handle_backend_notification(notification_data) ==
    IF notification_data.playerUuid = None
    THEN "dropped"
    ELSE send_notification(Val(notification_data.playerUuid))

\* the users during whose conversations the backend notifies
NotifiedProfiles == {"login", "stray_withdraw", "hasty_guest"}

\* notify_handler: the request is refused without the secret, else handed to
\* the service; it belongs to no identity's conversation
notify_handler(authorized, data) ==
    /\ profile \in NotifiedProfiles
    /\ KeepContext /\ KeepStorage /\ NoRequest
    /\ DoneCalling("", "notify_handler",
                   IF authorized THEN handle_backend_notification(data)
                   ELSE "unauthorized",
                   IF authorized THEN data.playerUuid ELSE None, FALSE)

-----------------------------------------------------------------------------
(* The bot handles an update, or a backend call of a suspended handler answers *)

Next ==
    \/ \E i \in Identities : confirm_resumes(i)
    \/ \E i \in Identities : show_transaction_details_resumes(i)
    \/ \E i \in Identities : start_flow_resumes(i)
    \/ \E authorized \in BOOLEAN : \E data \in Notifications :
            notify_handler(authorized, data)
    \/ \E i \in Identities : \E ev \in EventsOf(profile) :
            \/ cmd_start(i, ev)
            \/ select_language(i, ev)
            \/ continue_as_guest(i, ev)
            \/ process_contact(i, ev)
            \/ start_login(i, ev)
            \/ process_login_username(i, ev)
            \/ process_login_password(i, ev)
            \/ switch_login_account(i, ev)
            \/ cancel_login_switch(i, ev)
            \/ start_registration(i, ev)
            \/ process_email(i, ev)
            \/ process_password(i, ev)
            \/ process_display_name(i, ev)
            \/ process_phone(i, ev)
            \/ cmd_main_menu(i, ev)
            \/ cmd_deposit(i, ev)
            \/ cmd_withdraw(i, ev)
            \/ cmd_logout(i, ev)
            \/ admin_logout(i, ev)
            \/ stateless_handler(i, ev)
            \/ unhandled(i, ev)
            \/ select_deposit_bank(i, ev)
            \/ select_amount(i, ev)
            \/ process_amount(i, ev)
            \/ select_betting_site(i, ev)
            \/ process_player_site_id(i, ev)
            \/ process_screenshot(i, ev)
            \/ handle_screenshot_text(i, ev)
            \/ confirm_deposit(i, ev)
            \/ cancel_deposit(i, ev)
            \/ cancel_flow(i, ev)
            \/ select_withdraw_bank(i, ev)
            \/ process_required_field(i, ev)
            \/ select_withdraw_amount(i, ev)
            \/ process_withdraw_amount(i, ev)
            \/ select_withdraw_betting_site(i, ev)
            \/ process_withdraw_player_site_id(i, ev)
            \/ process_withdraw_screenshot(i, ev)
            \/ skip_withdraw_screenshot(i, ev)
            \/ confirm_withdraw(i, ev)
            \/ cancel_withdraw(i, ev)
            \/ handle_admin_menu_buttons(i, ev)
            \/ request_date(i, ev)
            \/ show_transactions_by_date(i, ev)
            \/ show_transaction_details(i, ev)
            \/ assign_agent_start(i, ev)
            \/ assign_agent_confirm(i, ev)
            \/ update_status_start(i, ev)
            \/ update_status_confirm(i, ev)
            \/ back_to_admin_menu(i, ev)
            \/ confirm_awaits(i, ev)
            \/ show_transaction_details_awaits(i, ev)
            \/ start_flow_awaits(i, ev)

Spec == Init /\ [][Next]_vars

-----------------------------------------------------------------------------
(* The properties of the flows, checked under Spec *)

\* the step before s in the order of DepositStates
DepositPredecessor(s) ==
    CASE s = Dep_entering_amount -> Dep_selecting_bank
      [] s = Dep_selecting_betting_site -> Dep_entering_amount
      [] s = Dep_entering_player_site_id -> Dep_selecting_betting_site
      [] s = Dep_uploading_screenshot -> Dep_entering_player_site_id
      [] s = Dep_confirming -> Dep_uploading_screenshot
      [] OTHER -> NoState

\* C1: in the Deposit flow a later step is only ever entered from the step just
\* before it, and only with a checked value of the step that was left in the
\* bag: a bank id the backend knows, an amount inside the validator's range, a
\* site id of the active-site list, a site-account id its validator accepts.
C1_DepositAdvancesOnValidInput ==
    [][\A i \in Identities :
         (fsm'[i] # fsm[i] /\ fsm'[i] \in DepositStates \ {Dep_selecting_bank}) =>
            /\ fsm[i] = DepositPredecessor(fsm'[i])
            /\ fsm'[i] = Dep_entering_amount =>
                 bag'[i].deposit_bank_id \in DepositBankIds \cup InactiveDepositBankIds
            /\ fsm'[i] = Dep_selecting_betting_site =>
                 bag'[i].amount.nan \/ bag'[i].amount.num > 0
            /\ fsm'[i] = Dep_entering_player_site_id =>
                 bag'[i].betting_site_id \in ActiveSiteIds
            /\ fsm'[i] = Dep_uploading_screenshot =>
                 validate_player_site_id(bag'[i].player_site_id)
      ]_vars

ConfirmHandlers == {"confirm_deposit", "confirm_withdraw"}

\* the user tapped a bank and an active site and typed an amount and a
\* site-account id in the flow that is being confirmed
EnteredAll(i) ==
    /\ {"bank", "amount", "site", "player_site_id"} \subseteq DOMAIN entered[i]
    /\ entered[i].bank # NoArg
    /\ entered[i].site \in ActiveSiteIds

\* C2: a confirm yes that the backend accepts ends a flow of valid inputs with
\* exactly one create_transaction request, which carries the bank id, the
\* amount, the site id and the (stripped) site-account id the user entered in
\* that flow, and leaves the identity without state and with an empty bag; no
\* other handler sends a create_transaction request.
C2_ValidFlowCreatesOneTransaction ==
    [][/\ created' # <<>> => last'.h \in ConfirmHandlers
       /\ \A i \in Identities :
            (last'.id = i /\ last'.h \in ConfirmHandlers /\ last'.out = "ok") =>
               /\ Len(created') = 1
               /\ created'[1].transaction_type =
                     (IF last'.h = "confirm_deposit" THEN "DEPOSIT" ELSE "WITHDRAW")
               /\ EnteredAll(i) =>
                    /\ created'[1].bank_id = entered[i].bank
                    /\ created'[1].amount = entered[i].amount
                    /\ created'[1].betting_site_id = entered[i].site
                    /\ created'[1].player_site_id = Strip(entered[i].player_site_id)
               /\ fsm'[i] = NoState
               /\ bag'[i] = EmptyBag
      ]_vars

\* a Deposit of 150.50 through bank 7 to account player42 of site 3 was created
C2_DepositCreated ==
    /\ last.h = "confirm_deposit" /\ last.out = "ok"
    /\ Len(created) = 1
    /\ created[1].transaction_type = "DEPOSIT"
    /\ created[1].bank_id = 7
    /\ created[1].betting_site_id = 3
    /\ created[1].player_site_id = T_player
    /\ created[1].amount = [nan |-> FALSE, num |-> 15050, exp |-> 2]
    /\ fsm[last.id] = NoState

\* the steps of the flows that wait for a text
TextSteps ==
    {Dep_entering_amount, Dep_entering_player_site_id, Dep_uploading_screenshot,
     Wd_entering_required_fields, Wd_entering_amount, Wd_entering_player_site_id,
     Wd_uploading_screenshot}
    \cup LoginStates \cup RegistrationStates

\* C3: while a step of a flow waits for a text, no text is taken by the menu
\* commands Deposit and Withdraw: the step's own handler gets it.
C3_ActiveStepWinsOverMenuLabel ==
    [][\A i \in Identities :
         (last'.id = i /\ fsm[i] \in TextSteps) =>
            last'.h \notin {"cmd_deposit", "cmd_withdraw"}
      ]_vars

FlowOf(s) ==
    IF s \in DepositStates THEN "deposit"
    ELSE IF s \in WithdrawStates THEN "withdraw"
    ELSE IF s \in LoginStates THEN "login"
    ELSE IF s \in RegistrationStates THEN "registration"
    ELSE "none"

\* the flow a handler starts
StartedFlow(h) ==
    CASE h = "cmd_deposit" -> "deposit"
      [] h = "cmd_withdraw" -> "withdraw"
      [] h = "start_login" -> "login"
      [] h = "start_registration" -> "registration"
      [] OTHER -> "none"

InitialSteps ==
    {Dep_selecting_bank, Wd_selecting_bank, Login_waiting_for_username,
     Reg_waiting_for_email}

\* C4: a handler that starts a flow while a step of another flow is active
\* leaves the step and the bag as they are, and the first step of a flow is
\* only ever entered from the state without a flow.
C4_StartDuringOtherFlowRejected ==
    [][\A i \in Identities :
         /\ (/\ last'.id = i
             /\ StartedFlow(last'.h) # "none"
             /\ FlowOf(fsm[i]) \notin {"none", StartedFlow(last'.h)}) =>
                (fsm'[i] = fsm[i] /\ bag'[i] = bag[i])
         /\ (fsm'[i] # fsm[i] /\ fsm'[i] \in InitialSteps) => fsm[i] = NoState
      ]_vars

TextHandlers ==
    {"process_amount", "process_withdraw_amount", "process_player_site_id",
     "process_withdraw_player_site_id", "handle_screenshot_text",
     "process_required_field", "process_login_username", "process_login_password",
     "process_email", "process_password", "process_display_name", "process_phone"}

\* C5: a text that the validator of a free-text step rejects changes neither
\* the step nor the bag nor anything stored, and no request is sent: the state
\* is the one the text found.  The step's handler accepting the next text
\* goes on from there: it moves the step or adds to the bag.
C5_InvalidTextChangesNothing ==
    [][\A i \in Identities :
         (last'.id = i /\ last'.h \in TextHandlers) =>
            /\ last'.out = "invalid" =>
                 /\ fsm'[i] = fsm[i] /\ bag'[i] = bag[i]
                 /\ players' = players /\ credentials' = credentials
                 /\ created' = <<>>
            /\ (last = [last' EXCEPT !.out = "invalid"] /\ last'.out = "ok") =>
                 (fsm'[i] # fsm[i] \/ bag'[i] # bag[i])
      ]_vars

\* the amount -5 was rejected at the amount step of a Deposit with a bank chosen
C5_AmountRejected ==
    /\ last.h = "process_amount" /\ last.out = "invalid"
    /\ fsm[last.id] = Dep_entering_amount
    /\ Has(bag[last.id], "deposit_bank_id")
    /\ ~Has(bag[last.id], "amount")

StepHandlers ==
    {"select_deposit_bank", "select_withdraw_bank", "select_amount", "process_amount",
     "select_withdraw_amount", "process_withdraw_amount", "confirm_deposit",
     "confirm_withdraw"}

\* C7: when a backend call fails in a handler of a Deposit or Withdraw step
\* (bank lookup, site list, player creation or create_transaction), the step
\* after the event is the step before it; and when the same handler runs next
\* and the backend answers, the step moves on.
C7_BackendFailureKeepsStep ==
    [][\A i \in Identities :
         (last'.id = i /\ last'.h \in StepHandlers) =>
            /\ last'.out = "backend_error" => fsm'[i] = fsm[i]
            /\ (last = [last' EXCEPT !.out = "backend_error"] /\ last'.out = "ok") =>
                 fsm'[i] # fsm[i]
      ]_vars

\* create_transaction failed at the confirm step of a Deposit
C7_CreateTransactionFailed ==
    /\ last.h = "confirm_deposit" /\ last.out = "backend_error"
    /\ created # <<>>
    /\ fsm[last.id] = Dep_confirming

\* C8: a login that the backend answers with an admin (agent) account and a
\* token leaves role admin (agent) and that token stored; one that it answers
\* with a player account leaves no token stored and the player's uuid linked;
\* in each case the identity is left without state.
C8_LoginStoresRoleOfResponse ==
    [][\A i \in Identities :
         (last'.id = i /\ last'.h = "process_login_password") =>
            /\ (last'.out \in {"admin", "agent"} /\ last'.arg # None) =>
                 /\ get_user_role(credentials'[i]) = Some(last'.out)
                 /\ get_admin_token(credentials'[i]) = last'.arg
            /\ last'.out = "player" =>
                 /\ get_admin_token(credentials'[i]) = None
                 /\ players'[i].player_uuid = Some(UserPlayerUuid)
            /\ last'.out \in {"admin", "agent", "player"} => fsm'[i] = NoState
      ]_vars

\* C9: an identity has role admin or agent stored exactly when it has a token
\* stored.
C9_PrivilegedRoleIffToken ==
    \A i \in Identities :
        (get_user_role(credentials[i]) \in {Some("admin"), Some("agent")})
            <=> (get_admin_token(credentials[i]) # None)

\* a staff login stored its token and its role
C9_StaffTokenStored ==
    \E i \in Identities :
        /\ get_admin_token(credentials[i]) \in {Some(tok) : tok \in Tokens}
        /\ get_user_role(credentials[i]) = Some("agent")
        /\ last.out = "agent"

\* C10: a logout (the Logout button or /logout, or the panel's logout button)
\* of a logged-in identity leaves it without token, role and credentials and
\* without state, and leaves its player uuid and its language as they were.
C10_LogoutClearsSessionKeepsLink ==
    [][\A i \in Identities :
         (/\ last'.id = i
          /\ last'.h \in {"cmd_logout", "admin_logout"} /\ last'.out = "ok"
          /\ is_user_logged_in(credentials[i])) =>
             /\ get_admin_token(credentials'[i]) = None
             /\ get_user_role(credentials'[i]) = None
             /\ ~is_user_logged_in(credentials'[i])
             /\ fsm'[i] = NoState /\ bag'[i] = EmptyBag
             /\ players'[i] = players[i]
      ]_vars

\* a logged-in player with a language logged out
C10_PlayerLoggedOut ==
    /\ last.h = "cmd_logout" /\ last.out = "ok"
    /\ players[last.id].player_uuid = Some(UserPlayerUuid)
    /\ players[last.id].language_code # None
    /\ credentials[last.id] = NoRow

-----------------------------------------------------------------------------
(* The confirm step and the ways out of a flow *)

ConfirmStep(h) == IF h = "confirm_deposit" THEN Dep_confirming ELSE Wd_confirming

\* C17: at the confirm step a no tap (cancel_deposit, cancel_withdraw) leaves
\* the identity without state and with an empty bag and sends no
\* create_transaction request; a create_transaction request is only sent by
\* the handlers of a yes tap, taken while the identity's step was the confirm
\* step of that handler's flow.
C17_OnlyYesAtConfirmCreates ==
    [][/\ \A i \in Identities :
            (last'.id = i /\ last'.h \in {"cancel_deposit", "cancel_withdraw"}) =>
               /\ fsm[i] \in {Dep_confirming, Wd_confirming}
               /\ fsm'[i] = NoState
               /\ bag'[i] = EmptyBag
               /\ created' = <<>>
       /\ created' # <<>> =>
            /\ last'.h \in ConfirmHandlers
            /\ fsm[last'.id] = ConfirmStep(last'.h)
      ]_vars

\* a Deposit was cancelled with the no button of its summary
C17_DepositDeclined ==
    /\ last.h = "cancel_deposit" /\ last.arg = Some(Dep_confirming)
    /\ fsm[last.id] = NoState /\ bag[last.id] = EmptyBag

\* the handlers of the cancel button and of the go-to-menu command
LeaveHandlers == {"cancel_flow", "cmd_main_menu"}

\* C18: the cancel button and the go-to-menu command, taken at any step of
\* Deposit or Withdraw, leave the identity without state and with an empty
\* bag in that same step and send no create_transaction request; and a
\* create_transaction request carries only values of the bag as it is when the
\* yes is taken, so none of a flow instance that was cancelled before.
C18_CancelDropsTheFlow ==
    [][/\ \A i \in Identities :
            (/\ last'.id = i /\ last'.h \in LeaveHandlers
             /\ fsm[i] \in DepositStates \cup WithdrawStates) =>
               /\ fsm'[i] = NoState
               /\ bag'[i] = EmptyBag
               /\ entered'[i] = <<>>
               /\ created' = <<>>
       /\ \A k \in 1..Len(created') :
            /\ created'[k].amount = bag[last'.id].amount
            /\ created'[k].betting_site_id = bag[last'.id].betting_site_id
            /\ created'[k].player_site_id = bag[last'.id].player_site_id
            /\ created'[k].screenshot = bag[last'.id].screenshot_file_id
      ]_vars

\* a Withdraw was cancelled at its amount step with the cancel button
C18_WithdrawCancelledAtAmount ==
    /\ last.h = "cancel_flow" /\ last.arg = Some(Wd_entering_amount)
    /\ fsm[last.id] = NoState /\ bag[last.id] = EmptyBag

\* C20: when a confirm handler returns, the temporary copy it downloaded of
\* the screenshot no longer exists, whatever the exit path.
C20_TempCopyRemovedOnReturn ==
    last.h \in ConfirmHandlers => tempfiles = {}

-----------------------------------------------------------------------------
(* The admin panel: the transaction cache and the role gate *)

\* C11: the Back button of the admin panel (back_to_admin_menu) leaves the
\* identity without state and with a bag that holds nothing but the
\* transaction cache, with the entries it had before the tap.
C11_BackKeepsTransactionCache ==
    [][\A i \in Identities :
         (last'.id = i /\ last'.h = "back_to_admin_menu") =>
            /\ fsm'[i] = NoState
            /\ DOMAIN bag'[i] \subseteq {"transactions_cache"}
            /\ transactions_cache(bag'[i]) = transactions_cache(bag[i])
      ]_vars

\* the handlers that render a transaction list
ListHandlers == {"handle_admin_menu_buttons", "show_transactions_by_date"}

\* C12: when a transaction list has been rendered (all, recent or by date)
\* and the next event of the admin is a tap on one of the listed transactions,
\* the detail view is served from the cache, without a backend call.
C12_ListedTransactionServedFromCache ==
    [][\A i \in Identities :
         (/\ get_user_role(credentials[i]) = Some("admin")
          /\ last.id = i /\ last.h \in ListHandlers /\ last.out = "listed"
          /\ last'.id = i /\ last'.h = "show_transaction_details"
          /\ last'.out \in {"cached", "fetched"}
          /\ Val(last'.arg).id \in Val(last.arg)) =>
            last'.out = "cached"
      ]_vars

UpdateHandlers == {"update_status_confirm", "assign_agent_confirm"}

\* C13: a successful status update or agent assignment of transaction T
\* overwrites the cache entry of T with the transaction the backend answered
\* (for a status update: with the status that was set), leaves every other
\* entry of the cache as it was, and a detail view of T that follows shows
\* that transaction from the cache, without a fetch.
C13_UpdateOverwritesCacheEntry ==
    [][\A i \in Identities :
         /\ (last'.id = i /\ last'.h \in UpdateHandlers /\ last'.out = "ok") =>
               LET tx == Val(last'.arg)
                   old == transactions_cache(bag[i])
                   new == transactions_cache(bag'[i])
               IN /\ DOMAIN new = DOMAIN old \cup {tx.id}
                  /\ new[tx.id] = tx
                  /\ \A k \in DOMAIN old \ {tx.id} : new[k] = old[k]
                  /\ last'.h = "update_status_confirm" => tx.status \in TappedStatuses
                  /\ last'.h = "assign_agent_confirm" =>
                        tx.assignedAgent \in {Some(g) : g \in AgentIds}
         /\ (/\ last.id = i /\ last.h \in UpdateHandlers /\ last.out = "ok"
             /\ last'.id = i /\ last'.h = "show_transaction_details"
             /\ last'.out \in {"cached", "fetched"}
             /\ Val(last'.arg).id = Val(last.arg).id) =>
               /\ last'.out = "cached"
               /\ last'.arg = last.arg
      ]_vars

\* transaction 101, set to SUCCESS while 102 was in the cache, is shown from
\* the cache with the status (and the agent) the backend answered
C13_UpdatedStatusShownFromCache ==
    /\ last.h = "show_transaction_details" /\ last.out = "cached"
    /\ last.arg = Some(Transaction(101, "SUCCESS", Some(5)))
    /\ 102 \in DOMAIN transactions_cache(bag[last.id])

\* the handlers of the admin menu's commands
AdminMenuCommands == {"handle_admin_menu_buttons", "show_transactions_by_date"}

-----------------------------------------------------------------------------
(* Updates of one identity that arrive while a handler awaits the backend *)

\* C14: the handling of the events of one identity is serialized: no state
\* has two handlers of the same identity in progress, i.e. while a handler of
\* the identity is suspended at a backend call no other handler of that
\* identity is started, so at most one is ever suspended.
C14_OneHandlerInProgress ==
    \A i \in Identities : Len(tasks[i]) <= 1

\* the steps that add a transaction to the cache of the bag
CacheAdded ==
    \/ last'.h \in UpdateHandlers /\ last'.out = "ok"
    \/ last'.h = "show_transaction_details" /\ last'.out = "fetched"
    \/ last'.h = "resume" /\ last'.out = "fetched"

\* C15: an update of the bag is never lost to another update of the same
\* identity: a handler that adds a transaction to the cache leaves in it
\* every transaction that was there when it wrote, and a required-field
\* answer of Withdraw leaves every answer stored before it.
C15_NoBagUpdateLost ==
    [][\A i \in Identities :
         /\ (last'.id = i /\ CacheAdded) =>
               DOMAIN transactions_cache(bag[i])
                   \subseteq DOMAIN transactions_cache(bag'[i])
         /\ (last'.id = i /\ last'.h = "process_required_field"
             /\ Has(bag[i], "withdrawal_fields")) =>
               /\ Has(bag'[i], "withdrawal_fields")
               /\ \A k \in 1..Len(bag[i].withdrawal_fields) :
                    \E m \in 1..Len(bag'[i].withdrawal_fields) :
                        bag'[i].withdrawal_fields[m][1] = bag[i].withdrawal_fields[k][1]
      ]_vars

\* C16: completion is not deduplicated: a yes taken at the confirm step, with
\* the player known and the data complete, sends (unless the download of the
\* screenshot fails) a create_transaction request built from the bag, also
\* when an earlier yes of the same flow instance has sent one already whose
\* handler has not cleared the state yet.
C16_SecondYesSendsAnotherRequest ==
    [][\A i \in Identities :
         (/\ last'.id = i /\ last'.h \in ConfirmHandlers
          /\ players[i].player_uuid # None
          /\ last'.out # "download_failed"
          /\ RequestKeys(IF last'.h = "confirm_deposit" THEN "DEPOSIT" ELSE "WITHDRAW")
                \subseteq DOMAIN bag[i]) =>
            /\ Len(created') = 1
            /\ created'[1] =
                 TransactionRequest(IF last'.h = "confirm_deposit" THEN "DEPOSIT"
                                    ELSE "WITHDRAW",
                                    Val(players[i].player_uuid), bag[i])
      ]_vars

\* yes was tapped twice on one Deposit summary: two requests of the flow
\* instance are sent and neither handler has cleared the state yet
C16_TwoRequestsOfOneDeposit ==
    \E i \in Identities :
        /\ fsm[i] = Dep_confirming
        /\ YesSent(entered[i]) = 2
        /\ Len(tasks[i]) = 2
        /\ \A k \in 1..2 : tasks[i][k].h = "confirm_deposit"
        /\ last.h = "confirm_deposit" /\ last.out = "awaiting"
        /\ Len(created) = 1

-----------------------------------------------------------------------------
(* The utility functions and the storage's state table, called on their    *)
(* own: the arguments of a call are drawn in the initial state (utilities) *)
(* or by the call (storage), and the call records what it returned.        *)

\* amount_str of validate_amount
AmountInputs ==
    {<<"1", "0", "0">>,
     <<"1", "5", "0", ".", "5", "0">>,
     <<"0">>,
     <<"-", "1", "0">>,
     <<"a", "b", "c">>,
     <<"1", "0", "0", "0", "0", "0", "0">>,
     <<"1", "0", "0", "0", "0", "0", "0", ".", "5">>,
     <<"1", "0", "0", "0", "0", "0", "1">>,
     <<"0", ".", "5">>,
     <<"n", "a", "n">>,
     <<"-", "n", "a", "n">>,
     <<"i", "n", "f">>,
     <<"-", "i", "n", "f">>,
     <<>>,
     <<" ", "5", " ">>,
     <<"+", "5">>,
     <<".", "5">>,
     <<"5", ".">>,
     <<"1", ".", "2", ".", "3">>,
     <<"-", "0">>,
     <<"-", "5">>,
     <<"9", "9", "9", "9", "9", "9", ".", "9", "9">>,
     <<"0", ".", "0">>,
     <<"5", "\n">>}

\* site_id of validate_player_site_id
SiteIdInputs ==
    {<<"p", "l", "a", "y", "e", "r", "1", "2", "3">>,
     <<"p", "l", "a", "y", "e", "r", "_", "1", "2", "3">>,
     <<>>,
     [k \in 1..MaxSiteIdLen |-> "a"],
     [k \in 1..(MaxSiteIdLen + 1) |-> "a"],
     <<" ">>,
     <<"p", "l", " ", "a", "y", "e", "r">>,
     <<"p", "l", "a", "y", "e", "r", "-", "1">>,
     <<"p", "l", "a", "y", "e", "r", "!">>,
     <<"p", "l", "a", "y", "e", "r", "4", "2", "\n">>,
     <<"\n">>,
     <<"_">>,
     <<"-">>,
     <<"a", " ", "b">>,
     <<"a", ".", "b">>,
     <<"A", "9">>,
     <<"p", "l", "a", "y", "e", "r", "\n", "\n">>,
     <<"\n", "p", "l", "a", "y", "e", "r">>}

\* build_paginated_inline_keyboard is called on lists of up to MaxItems
\* items, with up to MaxPerPage items per page
MaxItems == 7
MaxPerPage == 3

\* items: (text, callback_data) of the k-th entity of a list
Item(k) == [text |-> <<"Item", k>>, callback_data |-> <<"item", k>>]
Items(n) == [k \in 1..n |-> Item(k)]

\* the arguments of build_paginated_inline_keyboard; the page is whatever
\* number a callback carries
KeyboardInputs ==
    {[f |-> "build_paginated_inline_keyboard", items |-> Items(n), page |-> pg,
      items_per_page |-> p, callback_prefix |-> "item"] :
        n \in 0..MaxItems, pg \in (0 - 1)..(MaxItems + 1), p \in 1..MaxPerPage}

Min(a, b) == IF a < b THEN a ELSE b
Max(a, b) == IF a > b THEN a ELSE b

\* a slice that always starts at the first item
Slice_of_first_page(items, start_idx, end_idx) ==
    SubSeq(items, 1, Min(end_idx - start_idx, Len(items)))

\* items[start_idx:end_idx]
Slice(items, start_idx, end_idx) ==
    SubSeq(items, Min(start_idx, Len(items)) + 1, Min(end_idx, Len(items)))

InlineKeyboardButton(text, callback_data) ==
    [text |-> text, callback_data |-> callback_data]

\* build_paginated_inline_keyboard: (keyboard, total_pages), the keyboard being
\* its rows: one row per item of the page, then the row of the Prev and Next
\* buttons when there is one
build_paginated_inline_keyboard(items, requested, items_per_page, callback_prefix) ==
    LET total_items == Len(items)
        total_pages == IF total_items > 0
                       THEN (total_items + items_per_page - 1) \div items_per_page
                       ELSE 1
        page == Max(1, Min(requested, total_pages))
        start_idx == (page - 1) * items_per_page
        end_idx == start_idx + items_per_page
        page_items == Slice(items, start_idx, end_idx)
        keyboard == [k \in 1..Len(page_items) |->
                        <<InlineKeyboardButton(page_items[k].text,
                                               page_items[k].callback_data)>>]
        prev == IF page > 1
                THEN <<InlineKeyboardButton("Prev", <<callback_prefix, "page", page - 1>>)>>
                ELSE <<>>
        next == IF page < total_pages
                THEN <<InlineKeyboardButton("Next", <<callback_prefix, "page", page + 1>>)>>
                ELSE <<>>
        nav_buttons == prev \o next
    IN  [keyboard |-> IF nav_buttons # <<>> THEN Append(keyboard, nav_buttons)
                      ELSE keyboard,
         total_pages |-> total_pages]

\* Python values: the type and the text repr() gives (for a str: the text)
PyStr(text) == [type |-> "str", repr |-> text]
PyInt(digits) == [type |-> "int", repr |-> digits]
PyBool(b) == [type |-> "bool",
              repr |-> IF b THEN <<"T", "r", "u", "e">> ELSE <<"F", "a", "l", "s", "e">>]
PyNone == [type |-> "NoneType", repr |-> <<"N", "o", "n", "e">>]

\* json.dumps of a str, int, bool or None (no character to escape in the texts)
json_dumps(value) ==
    CASE value.type = "str" -> <<"\"">> \o value.repr \o <<"\"">>
      [] value.type = "int" -> value.repr
      [] value.type = "bool" ->
            IF value = PyBool(TRUE) THEN <<"t", "r", "u", "e">>
            ELSE <<"f", "a", "l", "s", "e">>
      [] value.type = "NoneType" -> <<"n", "u", "l", "l">>

\* json.loads of a text: a literal, an integer, or a string in double quotes;
\* ok is FALSE where json.loads raises JSONDecodeError.  (No float, array or
\* object among the texts stored.)
json_loads(text) ==
    LET t == Strip(text)
        u == IF t # <<>> /\ Head(t) = "-" THEN Tail(t) ELSE t
    IN  IF t = <<"t", "r", "u", "e">> THEN [ok |-> TRUE, value |-> PyBool(TRUE)]
        ELSE IF t = <<"f", "a", "l", "s", "e">> THEN [ok |-> TRUE, value |-> PyBool(FALSE)]
        ELSE IF t = <<"n", "u", "l", "l">> THEN [ok |-> TRUE, value |-> PyNone]
        ELSE IF u # <<>> /\ AllIn(u, Digits) /\ (Len(u) = 1 \/ Head(u) # "0")
        THEN [ok |-> TRUE, value |-> PyInt(t)]
        ELSE IF /\ Len(t) >= 2 /\ Head(t) = "\"" /\ t[Len(t)] = "\""
                /\ AllIn(SubSeq(t, 2, Len(t) - 1), AlphaNum \cup {" ", "_", "-"})
        THEN [ok |-> TRUE, value |-> PyStr(SubSeq(t, 2, Len(t) - 1))]
        ELSE [ok |-> FALSE, value |-> PyNone]

\* a dict without a key, and with a key set
Without(d, k) == [x \in DOMAIN d \ {k} |-> d[x]]
With(d, k, v) == (k :> v) @@ d

\* MemoryStorage: _state_data is a dict of dicts of values
Memory_get_state_data(table, telegram_id, key) ==
    IF telegram_id \in DOMAIN table /\ table[telegram_id] # EmptyBag
    THEN IF key \in DOMAIN table[telegram_id] THEN table[telegram_id][key] ELSE PyNone
    ELSE PyNone

Memory_set_state_data(table, telegram_id, key, value) ==
    LET user_state == IF telegram_id \in DOMAIN table THEN table[telegram_id]
                      ELSE EmptyBag
    IN  With(table, telegram_id, With(user_state, key, value))

Memory_delete_state_data(table, telegram_id, key) ==
    IF telegram_id \in DOMAIN table /\ table[telegram_id] # EmptyBag
    THEN With(table, telegram_id, Without(table[telegram_id], key))
    ELSE table

Memory_clear_state(table, telegram_id) == Without(table, telegram_id)

\* SQLiteStorage: the rows (telegram_id, key, value) of the state_data table,
\* value being a TEXT; an identity without a row is not in the table.  (The
\* foreign key to players is not enforced: no PRAGMA foreign_keys.)
SQLite_get_state_data(table, telegram_id, key) ==
    IF telegram_id \in DOMAIN table /\ key \in DOMAIN table[telegram_id]
       /\ table[telegram_id][key] # <<>>          \* if row and row["value"]
    THEN LET loaded == json_loads(table[telegram_id][key])
         IN  IF loaded.ok THEN loaded.value ELSE PyStr(table[telegram_id][key])
    ELSE PyNone

SQLite_set_state_data(table, telegram_id, key, value) ==
    LET value_str == IF value.type # "str" THEN json_dumps(value) ELSE value.repr
        rows == IF telegram_id \in DOMAIN table THEN table[telegram_id] ELSE EmptyBag
    IN  With(table, telegram_id, With(rows, key, value_str))

SQLite_delete_state_data(table, telegram_id, key) ==
    IF telegram_id \in DOMAIN table
    THEN IF DOMAIN table[telegram_id] \subseteq {key}
         THEN Without(table, telegram_id)
         ELSE With(table, telegram_id, Without(table[telegram_id], key))
    ELSE table

\* a clear_state that deletes the rows of one key only
SQLite_clear_state_of_step(table, telegram_id) ==
    SQLite_delete_state_data(table, telegram_id, "step")

SQLite_clear_state(table, telegram_id) == Without(table, telegram_id)

\* StorageInterface, by storage mode
get_state_data(mode, table, telegram_id, key) ==
    IF mode = "sqlite" THEN SQLite_get_state_data(table, telegram_id, key)
    ELSE Memory_get_state_data(table, telegram_id, key)

set_state_data(mode, table, telegram_id, key, value) ==
    IF mode = "sqlite" THEN SQLite_set_state_data(table, telegram_id, key, value)
    ELSE Memory_set_state_data(table, telegram_id, key, value)

delete_state_data(mode, table, telegram_id, key) ==
    IF mode = "sqlite" THEN SQLite_delete_state_data(table, telegram_id, key)
    ELSE Memory_delete_state_data(table, telegram_id, key)

clear_state(mode, table, telegram_id) ==
    IF mode = "sqlite" THEN SQLite_clear_state(table, telegram_id)
    ELSE Memory_clear_state(table, telegram_id)

\* The identities, keys and values of the calls of the storage.
TelegramIds == {1, 2}
StateKeys == {"step", "amount"}
StateValues ==
    {PyStr(<<"a", "b", "c">>), PyStr(<<"1", "2", "3">>), PyStr(<<"t", "r", "u", "e">>),
     PyStr(<<>>), PyInt(<<"7">>)}

\* the keys an identity holds in the table
Held(table, telegram_id) ==
    IF telegram_id \in DOMAIN table THEN DOMAIN table[telegram_id] ELSE {}

\* The state before a call: the arguments of a call of a utility drawn from the
\* inputs, or a storage freshly initialized (no row in state_data).
LibInit ==
    /\ storageMode \in {"sqlite", "memory"}
    /\ profile = "library"
    /\ fsm = [i \in Identities |-> NoState]
    /\ bag = [i \in Identities |-> EmptyBag]
    /\ players = [i \in Identities |-> NoPlayer]
    /\ credentials = [i \in Identities |-> NoRow]
    /\ entered = [i \in Identities |-> <<>>]
    /\ restarts = [i \in Identities |-> 0]
    /\ created = <<>>
    /\ tempfiles = {}
    /\ tasks = [i \in Identities |-> <<>>]
    /\ last = [id |-> "", h |-> "", out |-> "", arg |-> None]
    /\ called = FALSE
    /\ state_data = <<>>
    /\ result = None
    /\ \/ \E a \in AmountInputs : input = [f |-> "validate_amount", amount_str |-> a]
       \/ \E t \in SiteIdInputs :
            input = [f |-> "validate_player_site_id", site_id |-> t,
                     max_length |-> MaxSiteIdLen]
       \/ input \in KeyboardInputs
       \/ input = [f |-> "initialize"]

LibUnchanged ==
    UNCHANGED <<storageMode, profile, fsm, bag, players, credentials, entered,
                restarts, created, tempfiles, tasks, last, called>>

call_validate_amount ==
    /\ input # None /\ input.f = "validate_amount" /\ result = None
    /\ result' = Some(validate_amount(input.amount_str))
    /\ UNCHANGED <<input, state_data>> /\ LibUnchanged

call_validate_player_site_id ==
    /\ input # None /\ input.f = "validate_player_site_id" /\ result = None
    /\ result' = Some(validate_player_site_id_result(input.site_id))
    /\ UNCHANGED <<input, state_data>> /\ LibUnchanged

call_build_paginated_inline_keyboard ==
    /\ input # None /\ input.f = "build_paginated_inline_keyboard" /\ result = None
    /\ result' = Some(build_paginated_inline_keyboard(input.items, input.page,
                          input.items_per_page, input.callback_prefix))
    /\ UNCHANGED <<input, state_data>> /\ LibUnchanged

StorageOps == {"initialize", "get_state_data", "set_state_data",
               "delete_state_data", "clear_state"}

\* a call of the storage: held is what the identity held when it was made
StorageCall(f, telegram_id, key, value) ==
    /\ input # None /\ input.f \in StorageOps
    /\ input' = [f |-> f, telegram_id |-> telegram_id, key |-> key, value |-> value,
                 held |-> Held(state_data, telegram_id)]
    /\ LibUnchanged

call_get_state_data(telegram_id, key) ==
    /\ StorageCall("get_state_data", telegram_id, Some(key), None)
    /\ result' = Some(get_state_data(storageMode, state_data, telegram_id, key))
    /\ UNCHANGED state_data

call_set_state_data(telegram_id, key, value) ==
    /\ StorageCall("set_state_data", telegram_id, Some(key), Some(value))
    /\ state_data' = set_state_data(storageMode, state_data, telegram_id, key, value)
    /\ result' = Some(PyNone)

call_delete_state_data(telegram_id, key) ==
    /\ StorageCall("delete_state_data", telegram_id, Some(key), None)
    /\ state_data' = delete_state_data(storageMode, state_data, telegram_id, key)
    /\ result' = Some(PyNone)

call_clear_state(telegram_id) ==
    /\ StorageCall("clear_state", telegram_id, None, None)
    /\ state_data' = clear_state(storageMode, state_data, telegram_id)
    /\ result' = Some(PyNone)

LibNext ==
    \/ call_validate_amount
    \/ call_validate_player_site_id
    \/ call_build_paginated_inline_keyboard
    \/ \E telegram_id \in TelegramIds, key \in StateKeys :
          call_get_state_data(telegram_id, key)
    \/ \E telegram_id \in TelegramIds, key \in StateKeys, value \in StateValues :
          call_set_state_data(telegram_id, key, value)
    \/ \E telegram_id \in TelegramIds, key \in StateKeys :
          call_delete_state_data(telegram_id, key)
    \/ \E telegram_id \in TelegramIds : call_clear_state(telegram_id)

LibSpec == LibInit /\ [][LibNext]_vars

-----------------------------------------------------------------------------
(* C26: validate_amount accepts an input exactly when it parses as a number  *)
(* greater than 0 and at most 1,000,000, returning the parsed value; every   *)
(* other input is rejected with no amount and an error message.              *)

\* the text parses as a number: float() takes it and gives neither nan nor
\* an infinity
ParsesAsNumber(str) ==
    ParseFloat(str).ok /\ ~ParseFloat(str).nan /\ ParseFloat(str).inf = 0

C26_AmountAcceptedIffInRange ==
    (input # None /\ input.f = "validate_amount" /\ result # None) =>
        LET f == ParseFloat(input.amount_str)
            r == Val(result)
        IN  IF /\ ParsesAsNumber(input.amount_str)
               /\ f.num > 0 /\ f.num <= MaxAmount * Pow10(f.exp)
            THEN /\ r.valid
                 /\ r.amount = Some([nan |-> FALSE, num |-> f.num, exp |-> f.exp])
                 /\ r.error = None
            ELSE ~r.valid /\ r.amount = None /\ r.error # None

-----------------------------------------------------------------------------
(* C27: validate_player_site_id accepts exactly the non-empty strings of at  *)
(* most 50 characters made only of letters, digits, underscore and hyphen,   *)
(* and rejects every other string with an error message.                     *)

C27_SiteIdAcceptedIffWellFormed ==
    (input # None /\ input.f = "validate_player_site_id" /\ result # None) =>
        LET r == Val(result)
        IN  IF /\ input.site_id # <<>>
               /\ Len(input.site_id) <= MaxSiteIdLen
               /\ AllIn(input.site_id, AlphaNum \cup {"_", "-"})
            THEN r.valid /\ r.error = None
            ELSE ~r.valid /\ r.error # None

-----------------------------------------------------------------------------
(* C28: build_paginated_inline_keyboard over n items with p per page reports *)
(* ceil(n/p) pages (1 when n = 0), clamps the requested page into            *)
(* [1, pages], shows exactly the items of that page in their order, one per  *)
(* row, and adds Prev only when page > 1 and Next only when page < pages,    *)
(* each carrying the neighbouring page number.                               *)

\* ceil(n / p): the least number of pages of p places that hold n items
Ceil(n, p) == CHOOSE k \in 0..n : k * p >= n /\ (k - 1) * p < n

C28_KeyboardShowsClampedPage ==
    (input # None /\ input.f = "build_paginated_inline_keyboard" /\ result # None) =>
        LET n == Len(input.items)
            p == input.items_per_page
            r == Val(result)
            pages == IF n = 0 THEN 1 ELSE Ceil(n, p)
            page == IF input.page < 1 THEN 1
                    ELSE IF input.page > pages THEN pages ELSE input.page
            shown == {k \in 1..n : (page - 1) * p < k /\ k <= page * p}
            nav == (IF page > 1
                    THEN <<[text |-> "Prev",
                            callback_data |-> <<input.callback_prefix, "page", page - 1>>]>>
                    ELSE <<>>)
                   \o (IF page < pages
                       THEN <<[text |-> "Next",
                               callback_data |-> <<input.callback_prefix, "page", page + 1>>]>>
                       ELSE <<>>)
            rows == Cardinality(shown)
        IN  /\ r.total_pages = pages
            /\ Len(r.keyboard) = rows + (IF nav = <<>> THEN 0 ELSE 1)
            /\ \A k \in 1..rows :
                  r.keyboard[k] = <<[text |-> input.items[(page - 1) * p + k].text,
                                     callback_data |->
                                        input.items[(page - 1) * p + k].callback_data]>>
            /\ nav # <<>> => r.keyboard[rows + 1] = nav

\* a keyboard was built for a page past the last one of a list of three pages:
\* it shows the third page, with Prev leading to the second
C28_PagePastTheLastClamped ==
    /\ input # None /\ input.f = "build_paginated_inline_keyboard" /\ result # None
    /\ Len(input.items) = 7 /\ input.items_per_page = 3
    /\ input.page > 3
    /\ Val(result).total_pages = 3
    /\ Len(Val(result).keyboard) = 2
    /\ Val(result).keyboard[2][1].callback_data = <<"item", "page", 2>>

-----------------------------------------------------------------------------
(* C24: after clear_state for an identity every key of its stored state      *)
(* reads as absent (None), also when the identity held nothing; the call     *)
(* returns without error, leaves the other identities' data alone, and a     *)
(* second clear_state in a row changes nothing.                              *)

C24_ClearLeavesNoState ==
    [][(input' # None /\ input'.f = "clear_state") =>
         /\ result' = Some(PyNone)
         /\ Held(state_data', input'.telegram_id) = {}
         /\ \A key \in StateKeys :
               get_state_data(storageMode, state_data', input'.telegram_id, key) = PyNone
         /\ \A other \in TelegramIds \ {input'.telegram_id} : \A key \in StateKeys :
               get_state_data(storageMode, state_data', other, key)
                 = get_state_data(storageMode, state_data, other, key)
         /\ (input.f = "clear_state" /\ input.telegram_id = input'.telegram_id)
               => state_data' = state_data]_vars

\* clear_state was called for an identity that held both keys, while the other
\* identity holds data
C24_ClearedBothKeys ==
    /\ input # None /\ input.f = "clear_state"
    /\ input.held = StateKeys
    /\ Held(state_data, input.telegram_id) = {}
    /\ \E other \in TelegramIds : Held(state_data, other) # {}

-----------------------------------------------------------------------------
(* C25: set_state_data followed by get_state_data of that key returns the    *)
(* written value, in both storage backends and for every value, and leaves   *)
(* every other key of the identity and every key of the other identities as  *)
(* it was: no key is lost.                                                   *)

C25_WrittenValueReadBack ==
    [][(input' # None /\ input'.f = "set_state_data") =>
         /\ get_state_data(storageMode, state_data', input'.telegram_id,
                           Val(input'.key)) = Val(input'.value)
         /\ \A telegram_id \in TelegramIds : \A key \in StateKeys :
               <<telegram_id, key>> # <<input'.telegram_id, Val(input'.key)>> =>
                  /\ get_state_data(storageMode, state_data', telegram_id, key)
                       = get_state_data(storageMode, state_data, telegram_id, key)
                  /\ key \in Held(state_data, telegram_id)
                       => key \in Held(state_data', telegram_id)]_vars

-----------------------------------------------------------------------------
(* C22: in Withdraw, selecting a bank that declares n >= 1 required fields   *)
(* enters entering_required_fields with the cursor at 0 and no answer; while *)
(* that step is active the cursor is below n and counts the answers stored;  *)
(* each accepted answer is stored under the field at the cursor, keeps the   *)
(* earlier answers and moves the cursor by one, and the n-th leads to        *)
(* entering_amount with the address joined from the n answers in field       *)
(* order; a rejected answer changes nothing; a bank without required fields  *)
(* leads directly to entering_amount.                                        *)

\* the cursor and the answers agree with the fields declared
CursorInRange(i) ==
    fsm[i] = Wd_entering_required_fields =>
        /\ {"required_fields", "current_field_index", "withdrawal_fields"}
              \subseteq DOMAIN bag[i]
        /\ bag[i].required_fields = RequiredFields(bag[i].withdrawal_bank_id)
        /\ bag[i].current_field_index >= 0
        /\ bag[i].current_field_index < Len(bag[i].required_fields)
        /\ Len(bag[i].withdrawal_fields) = bag[i].current_field_index
        /\ \A k \in 1..Len(bag[i].withdrawal_fields) :
              bag[i].withdrawal_fields[k][1] = bag[i].required_fields[k]

C22_RequiredFieldsCursor ==
    [][\A i \in Identities :
         /\ CursorInRange(i)'
         /\ (last'.id = i /\ last'.h = "select_withdraw_bank" /\ last'.out = "ok") =>
               IF RequiredFields(bag'[i].withdrawal_bank_id) # <<>>
               THEN /\ fsm'[i] = Wd_entering_required_fields
                    /\ bag'[i].current_field_index = 0
                    /\ bag'[i].withdrawal_fields = <<>>
               ELSE fsm'[i] = Wd_entering_amount
         /\ (last'.id = i /\ last'.h = "process_required_field" /\ last'.out = "invalid")
               => fsm'[i] = fsm[i] /\ bag'[i] = bag[i]
         /\ (last'.id = i /\ last'.h = "process_required_field" /\ last'.out = "ok") =>
               LET c == bag[i].current_field_index
                   n == Len(bag[i].required_fields)
                   answers == bag'[i].withdrawal_fields
               IN  /\ Len(answers) = c + 1
                   /\ SubSeq(answers, 1, c) = bag[i].withdrawal_fields
                   /\ answers[c + 1][1] = bag[i].required_fields[c + 1]
                   /\ answers[c + 1][2] # <<>>
                   /\ IF c + 1 < n
                      THEN /\ fsm'[i] = Wd_entering_required_fields
                           /\ bag'[i].current_field_index = c + 1
                      ELSE /\ fsm'[i] = Wd_entering_amount
                           /\ bag'[i].withdrawal_address
                                = Join([k \in 1..n |-> answers[k][2]])
      ]_vars

\* the second of two required fields was answered: the flow is at the amount
\* with an address of two parts
C22_BothFieldsAnswered ==
    \E i \in Identities :
        /\ last.id = i /\ last.h = "process_required_field" /\ last.out = "ok"
        /\ fsm[i] = Wd_entering_amount
        /\ Len(bag[i].required_fields) = 2
        /\ Len(bag[i].withdrawal_fields) = 2
        /\ "withdrawal_address" \in DOMAIN bag[i]

-----------------------------------------------------------------------------
(* C21: a token-gated admin action (list, detail, assign, set status, by-date *)
(* query) attempted by an identity without stored token ends with the        *)
(* session-expired answer, and the handler of that event calls no backend    *)
(* method, sends no request and leaves the identity's step and data bag as   *)
(* they were before the event.                                               *)

\* the handlers that do nothing but the gated action
GatedHandlers == {"show_transaction_details", "assign_agent_start",
                  "assign_agent_confirm", "update_status_confirm"}

-----------------------------------------------------------------------------
(* C23: in Deposit at entering_amount a text that is a number not greater    *)
(* than 0 (such as "-5") is rejected: the step stays entering_amount, the    *)
(* bag is unchanged, and the handler of that event calls no backend method.  *)

C23_InvalidAmountCallsNoBackend ==
    [][/\ ~validate_amount(T_negative).valid
       /\ \A i \in Identities :
            (last'.id = i /\ last'.h = "process_amount") =>
               IF last'.out = "invalid"
               THEN /\ fsm[i] = Dep_entering_amount
                    /\ fsm'[i] = Dep_entering_amount
                    /\ bag'[i] = bag[i]
                    /\ created' = <<>>
                    /\ ~called'
               ELSE \* the text was accepted: it was no number below or at 0
                    /\ "amount" \in DOMAIN bag'[i]
                    /\ ~bag'[i].amount.nan => bag'[i].amount.num > 0
      ]_vars

-----------------------------------------------------------------------------
(* C29: while a list-selection step is active (the bank list or the site     *)
(* list of Deposit or Withdraw), a tap on a page button only turns the page: *)
(* the selection handlers store an id and leave the step only for a tap on   *)
(* an item of the list, and the page handlers change neither step nor bag.   *)

SelectHandlers == {"select_deposit_bank", "select_betting_site",
                   "select_withdraw_bank", "select_withdraw_betting_site"}

\* what the user entered is recorded under this key
EnteredKey(h) ==
    IF h \in {"select_deposit_bank", "select_withdraw_bank"} THEN "bank" ELSE "site"

C29_PageTapSelectsNothing ==
    [][\A i \in Identities :
         /\ (last'.id = i /\ last'.h \in SelectHandlers /\ last'.out = "ok")
               => entered'[i][EnteredKey(last'.h)] # NoArg
         /\ (last'.id = i /\ last'.h = "stateless_handler")
               => fsm'[i] = fsm[i] /\ bag'[i] = bag[i]
      ]_vars

-----------------------------------------------------------------------------
(* C30: every amount in the data bag, and every amount of a                  *)
(* create_transaction request, is a number greater than 0 and at most        *)
(* 1,000,000, whether it was typed or came with an amount button.            *)

AmountInRange(amount) ==
    /\ ~amount.nan
    /\ amount.num > 0
    /\ amount.num <= MaxAmount * Pow10(amount.exp)

C30_StoredAmountInRange ==
    /\ \A i \in Identities : Has(bag[i], "amount") => AmountInRange(bag[i].amount)
    /\ \A k \in 1..Len(created) : AmountInRange(created[k].amount)

-----------------------------------------------------------------------------
(* C31: every field of a create_transaction request was entered in the flow  *)
(* instance that sends it; values an earlier unfinished flow left in the bag *)
(* are not carried over, so a withdrawal to a bank that declares no required *)
(* fields never carries a withdrawal address collected for another bank.     *)

C31_NoAddressOfAnEarlierFlow ==
    [][\A k \in 1..Len(created') :
          (/\ created'[k].transaction_type = "WITHDRAW"
           /\ RequiredFields(created'[k].bank_id) = <<>>)
          => created'[k].withdrawal_address = Some(<<>>)]_vars

-----------------------------------------------------------------------------
(* C32: the admin-only mutating actions (assign a transaction to an agent,  *)
(* admin status update) reach the backend only for an identity whose stored *)
(* role is admin when the event arrives; an agent holding an agent token    *)
(* never triggers them by sending the callback.                             *)

C32_OnlyAdminsAssignAndUpdate ==
    [][(/\ last'.h \in {"assign_agent_confirm", "update_status_confirm"}
        /\ called')
       => get_user_role(credentials[last'.id]) = Some("admin")]_vars

-----------------------------------------------------------------------------
(* C33: set_user_credentials leaves the token and the role stored before     *)
(* for the identity as they are, in both storage backends: after an admin or *)
(* agent login, by password or by contact, which stores the token and the    *)
(* role first and the credentials after, get_admin_token returns the token   *)
(* of the login and get_user_role its role.                                  *)

C33_CredentialsKeepTokenAndRole ==
    [][\A i \in Identities :
         (/\ last'.id = i
          /\ last'.h \in {"process_login_password", "process_contact"}
          /\ last'.out \in {"admin", "agent"}
          /\ last'.arg # None)
         => /\ get_admin_token(credentials'[i]) = last'.arg
            /\ get_user_role(credentials'[i]) = Some(last'.out)
            /\ is_user_logged_in(credentials'[i])]_vars

-----------------------------------------------------------------------------
(* C34: after every successful authentication of an identity, by password   *)
(* or by contact, the stored role is the role of the response: a login      *)
(* answered with a player account leaves no privileged role and no token of *)
(* an earlier admin or agent session stored.                                *)

Authentications == {"process_login_password", "process_contact"}

C34_StoredRoleIsRoleOfLastLogin ==
    [][\A i \in Identities :
         (last'.id = i /\ last'.h \in Authentications) =>
            /\ (last'.out \in {"admin", "agent"} /\ last'.arg # None)
                 => get_user_role(credentials'[i]) = Some(last'.out)
            /\ last'.out = "player"
                 => /\ get_user_role(credentials'[i])
                          \notin {Some("admin"), Some("agent")}
                    /\ get_admin_token(credentials'[i]) = None]_vars

-----------------------------------------------------------------------------
(* C35: no reachable state has an identity with stored role admin or agent   *)
(* and an active Deposit or Withdraw step: the Deposit and Withdraw menu     *)
(* commands send staff to their panel without starting the flow, and every   *)
(* event that stores a privileged role also clears the identity's flow.      *)

C35_StaffHaveNoMoneyFlow ==
    \A i \in Identities :
        get_user_role(credentials[i]) \in {Some("admin"), Some("agent")}
            => fsm[i] \notin DepositStates \cup WithdrawStates

-----------------------------------------------------------------------------
(* C36: for an identity with stored role agent and no active flow, each      *)
(* agent menu label (My Transactions, My Stats, By Date) is dispatched to    *)
(* its agent action: the update is never dropped without a handler.          *)

AgentMenuLabels == {L_MyTransactions, L_MyStats, L_ByDate}

C36_AgentLabelsDispatched ==
    [][\A i \in Identities : \A t \in AgentMenuLabels :
         (/\ get_user_role(credentials[i]) = Some("agent")
          /\ fsm[i] = NoState)
         => ~unhandled(i, TextEvent(t))]_vars

-----------------------------------------------------------------------------
(* C37: set_player_uuid changes the linked account id only, in both storage  *)
(* backends: a login that links a player account leaves the display language *)
(* the user chose before as it was.                                          *)

C37_LoginKeepsChosenLanguage ==
    [][\A i \in Identities :
         (/\ last'.id = i
          /\ last'.h \in Authentications
          /\ last'.out = "player"
          /\ get_language(players[i]) # None)
         => get_language(players'[i]) = get_language(players[i])]_vars

-----------------------------------------------------------------------------
(* C38: get_or_create_guest_player is idempotent per identity: once an       *)
(* account id is stored for an identity, no later event handled after it     *)
(* removes the link or has a guest account created, and the handlers that    *)
(* call the service get the stored id back and leave the row as it is; so    *)
(* the identity never owns more than one account link and at most one guest  *)
(* account is created for it.                                                *)

GuestCallers == {"select_language", "continue_as_guest", "confirm_deposit",
                 "confirm_withdraw"}

C38_GuestAccountCreatedOnce ==
    [][\A i \in Identities :
         players[i].player_uuid # None =>
            /\ players'[i].player_uuid # None
            /\ players'[i].player_uuid = Some(GuestPlayerUuid)
                 => players[i].player_uuid = Some(GuestPlayerUuid)
            /\ (last'.id = i /\ last'.h \in GuestCallers)
                 => players'[i] = players[i]]_vars

\* a logged-in player continued as guest: the service returned the id of the
\* account linked by the login
C38_GuestCallReturnedStoredId ==
    \E i \in Identities :
        /\ last.id = i /\ last.h = "continue_as_guest" /\ last.out = "ok"
        /\ players[i].player_uuid = Some(UserPlayerUuid)

-----------------------------------------------------------------------------
(* C39: every text message received while a Deposit or Withdraw step is      *)
(* active that the step does not accept (arbitrary text, or skip without a   *)
(* slash, where a photo or the skip command is expected) is answered with a  *)
(* reply that prompts for the same step again: no such text is dropped       *)
(* without a handler, hence without a reply.                                 *)

TextEvents == {ev \in Events : ev.kind = "text"}

C39_UnacceptedTextIsAnswered ==
    [][\A i \in Identities : \A ev \in TextEvents :
         fsm[i] \in DepositStates \cup WithdrawStates => ~unhandled(i, ev)]_vars

-----------------------------------------------------------------------------
(* C40: handling a notification of the backend, at any point between the     *)
(* events of the users, changes no identity's conversation state (active     *)
(* step and data bag) and no entry of the session store; a notification      *)
(* that names no player is dropped and nothing is sent.                      *)

C40_NotificationChangesNothing ==
    [][last'.h = "notify_handler" =>
         /\ UNCHANGED <<fsm, bag, players, credentials, tasks>>
         /\ ~called'
         /\ last'.arg = None => last'.out \in {"dropped", "unauthorized"}]_vars

\* a notification without a player was dropped in the middle of a withdrawal
C40_NotifiedDuringWithdraw ==
    \E i \in Identities :
        /\ last.h = "notify_handler" /\ last.out = "dropped"
        /\ fsm[i] = Wd_entering_player_site_id
        /\ Has(bag[i], "amount")

====
